---- MODULE Spec2Model ----
(***************************************************************************)
(* Store-and-forward telemetry gateway: sensor reader workers append       *)
(* readings to a double-buffered, file-backed queue (buffer_a.json,        *)
(* buffer_b.json, active_buffer.txt) and one uploader rotates the buffers, *)
(* sends the rotated-out generation to the cloud sink with retries and     *)
(* archives or deletes it.                                                 *)
(*                                                                         *)
(* Modelled from src/common.py, src/telemetry_reader.py and                *)
(* src/telemetry_uploader.py.  Readers and uploader are workers of one     *)
(* process sharing common.write_lock (as the threads of src/IoT_script.py  *)
(* do).                                                                    *)
(***************************************************************************)
EXTENDS Integers, Sequences, FiniteSets, TLC

(* ---------------------------------------------------------------- bounds *)
MaxReadings == 2

(* ------------------------------------------------------ program constants *)
max_retries == 3
backoff_base == 5

Readers == {"port1", "port2"}
ReadingIds == 1..MaxReadings
NoGuid == 0

(* The caps of the dedup tracker, scaled down: MAX_GUID_CACHE_SIZE stands  *)
(* for the 10000 of telemetry_reader.py line 20 and common.py line 85,     *)
(* MAX_TRACKING_SIZE for the 1000 of telemetry_uploader.py line 32 and     *)
(* common.py line 83.  The identifier pools are larger than the caps.      *)
MAX_GUID_CACHE_SIZE == 2
MAX_TRACKING_SIZE == 1
ReadingGuids == 1..(MAX_GUID_CACHE_SIZE + 1)
PayloadIds == 1..(MAX_TRACKING_SIZE + 1)

(* Time is counted in ticks.  seconds_between_reads stands for the         *)
(* configured read interval of telemetry_reader.py line 99 and             *)
(* shutdown_timeout for the 5 seconds of IoT_script.py line 442, both      *)
(* scaled down.  MaxSkipped is how many consecutive port-unavailable       *)
(* cycles are counted.                                                     *)
seconds_between_reads == 1
shutdown_timeout == 2
MaxSkipped == 3

(* The longest cycle that is timed, in tenths of a second; it is longer    *)
(* than the read interval.                                                 *)
MaxDuration == 25

(* How many delivery attempts for one generation are followed.             *)
MaxAttempts == 5

(* telemetry_reader.py line 250: the floor 0.1 of the wait, in tenths of a *)
(* second.                                                                 *)
min_wait == 1

(* telemetry_reader.py lines 160-163: the defaults of the Modbus request.  *)
device_address == 1
function_code == 3
num_registers == 1

(* config["serialPorts"], in the order of the configuration file.          *)
SERIAL_PORTS == <<"port1", "port2">>

(* telemetry_reader.py line 122: value = None.  Values are carried in      *)
(* units of the 0.1 scale of line 192, so they are integers.               *)
None == -1

VARIABLES
    (* persisted state *)
    ptr,                \* ACTIVE_BUFFER_FILE: "none" (no file), "empty"
                        \* (opened for writing, nothing flushed), "A" or "B"
    buf,                \* BUFFER_A / BUFFER_B: [exists, text, ok, data]
    archives,           \* archive directory: sequence of [data, complete]
    (* shared in-process state *)
    write_lock,         \* "free", "uploader" or the reader holding it
    shutdown,           \* shutdown_event
    archiveTelemetry,   \* config["archiveTelemetry"]
    nextId,             \* next fresh reading identifier
    (* reader workers *)
    rpc, active_buffer, rdata, rloaded,
    (* uploader worker *)
    upc, send_buffer, telemetry_data, payload_guid, retry_count, client,
    sent_payload_guids,
    (* history of the run *)
    appended,           \* readings whose append completed
    delivered,          \* readings contained in a payload whose send succeeded
    retained,           \* readings of a generation left on disk by a failed cycle
    rotations,          \* rotations so far (counted up to 2)
    unlinked,           \* some generation file has been deleted or archived
    frozen,             \* [set, data]: the generation as it was rotated out
    attempts,           \* delivery attempts of the current cycle
    failures,           \* failed delivery attempts of the current cycle
    mints,              \* payload identifiers minted in the current cycle
    carried,            \* payloadGUID of each message handed to send_message
    clients_made,       \* sink clients created in the current cycle
    result,             \* how the current cycle went
    cyc,                \* [set, narch]: archive files present when the send succeeded
    (* dedup tracker *)
    telemetry_guids,    \* reader module: retained reading identifiers (a set)
    reading_guid,       \* the identifier generate_unique_reading_guid returned
    reader_tracking,    \* reader module's tracking_data
    uploader_tracking,  \* uploader module's tracking_data
    guid_file,          \* GUID_TRACKING_FILE: [payload_guids, reading_guids]
    (* history of the tracker *)
    reading_order,      \* retained reading identifiers, oldest insertion first
    payload_order,      \* retained payload identifiers, oldest insertion first
    last_op,            \* the tracker operation done last
    (* reader poll loop, per configured port *)
    is_active,          \* port_config["active"]
    should_simulate,    \* port_config["simulate"]
    lpc,                \* position in read_telemetry_from_port
    ser,                \* the serial port is open
    response,           \* bytes returned by ser.read in this cycle
    value,              \* value of this cycle, None until one is obtained
    port_available,     \* is_port_available in this cycle: "unknown", "yes", "no"
    sleep_left,         \* time left of the sleep or wait in progress
    (* lifecycle coordinator *)
    mpc,                \* position in main
    main_i,             \* index of the start loop and of the join loop
    started,            \* ports whose thread was started
    grace_left,         \* what is left of shutdown_timeout
    (* history of the poll loops *)
    stored,             \* write_telemetry_to_disk was called in this cycle
    unavailable_cycles, \* consecutive port-unavailable cycles so far
    raised,             \* an exception was raised in this cycle
    interrupted,        \* main received KeyboardInterrupt
    (* history of the sensor streams *)
    captured_by,        \* the reader that captured each reading
    (* Modbus request *)
    command_bytes,      \* the request without its CRC
    crc_pos,            \* bytes of the request calculate_crc has taken in
    crc,                \* calculate_crc's register
    full_command,       \* the request as sent, <<>> until it is built
    (* Modbus response *)
    raw_response,       \* the bytes ser.read returned
    decoded_value,      \* the value obtained from them, None before
    (* history of the delivery attempts *)
    waited,             \* the backoff waits slept in the current cycle
    (* timing of one reader loop, in tenths of a second *)
    cycle_path,         \* how the last cycle ended: "none", "end" or "skip"
    cycle_duration,     \* how long the last cycle took
    previous_duration,  \* how long the cycle before it took
    slept,              \* the sleep that followed the last cycle
    (* delivery loop of IoT_script.send_telemetry_to_iot_hub *)
    hub_pc,             \* "idle", "loop" or "after"
    hub_retry_count,    \* retry_count
    hub_success,        \* success
    hub_connected,      \* client.connected
    hub_outcomes,       \* how each attempt for this generation went
    hub_slept,          \* the waits slept between the attempts
    (* reading-identifier lock *)
    telemetry_guid_lock, \* "free" or the reader holding it
    candidate,          \* reading_guid inside generate_unique_reading_guid
    got                 \* the identifier the reader's last mint returned

diskVars == <<ptr, buf, archives>>
sharedVars == <<write_lock, shutdown, archiveTelemetry, nextId>>
readerVars == <<rpc, active_buffer, rdata, rloaded>>
uploaderVars == <<upc, send_buffer, telemetry_data, payload_guid, retry_count,
                  client, sent_payload_guids>>
sendHist == <<attempts, failures, mints, carried, clients_made>>
histVars == <<appended, delivered, retained, rotations, unlinked, frozen,
              sendHist, result, cyc>>
trackVars == <<telemetry_guids, reading_guid, reader_tracking,
               uploader_tracking, guid_file, reading_order, payload_order,
               last_op>>
pollVars == <<is_active, should_simulate, lpc, ser, response, value,
              port_available, sleep_left, mpc, main_i, started, grace_left,
              stored, unavailable_cycles, raised, interrupted>>
crcVars == <<command_bytes, crc_pos, crc, full_command>>
decodeVars == <<raw_response, decoded_value>>
timingVars == <<cycle_path, cycle_duration, previous_duration, slept>>
hubVars == <<hub_pc, hub_retry_count, hub_success, hub_connected,
             hub_outcomes, hub_slept>>
lockVars == <<telemetry_guid_lock, candidate, got>>
partVars == <<crcVars, decodeVars, waited, timingVars, hubVars, lockVars>>
partsButRequest == <<decodeVars, waited, timingVars, hubVars, lockVars>>
partsButResponse == <<crcVars, waited, timingVars, hubVars, lockVars>>
partsButWaited == <<crcVars, decodeVars, timingVars, hubVars, lockVars>>
partsButTiming == <<crcVars, decodeVars, waited, hubVars, lockVars>>
partsButHub == <<crcVars, decodeVars, waited, timingVars, lockVars>>
partsButLocks == <<crcVars, decodeVars, waited, timingVars, hubVars>>
vars == <<diskVars, sharedVars, readerVars, uploaderVars, histVars,
          trackVars, pollVars, captured_by, partVars>>

(* --------------------------------------------------------------- helpers *)
Range(s) == {s[i] : i \in 1..Len(s)}
NoDup(s) == \A i, j \in 1..Len(s) : i # j => s[i] # s[j]
NoFile == [exists |-> FALSE, text |-> TRUE, ok |-> TRUE, data |-> <<>>]
FileOf(d) == [exists |-> TRUE, text |-> TRUE, ok |-> TRUE, data |-> d]
NoClient == [created |-> FALSE, connected |-> FALSE, shut |-> FALSE]
NotFrozen == [set |-> FALSE, data |-> <<>>]
NoCyc == [set |-> FALSE, narch |-> 0]

(* common.initialize line 62: the tracking file of a fresh deployment.     *)
NoTracking == [payload_guids |-> <<>>, reading_guids |-> <<>>]
OnDisk == Range(buf["A"].data) \cup Range(buf["B"].data)

(* common.get_active_buffer lines 150-152: the generation an existing     *)
(* pointer file names; any content other than 'A', the empty content of a *)
(* file just opened for writing included, means B.                        *)
get_active_buffer(p) == IF p = "A" THEN "A" ELSE "B"

(* common.get_active_buffer lines 147-149: the content of the pointer     *)
(* file once the creating write is flushed, and the generation returned.  *)
created_pointer == "A"

(* common.switch_buffer: the value written to the pointer file, which is  *)
(* also the generation returned.                                          *)
switch_buffer(current) == IF current = "A" THEN "B" ELSE "A"

(* json.dump([], f) on the newly active generation.                       *)
initialized_buffer == FileOf(<<>>)

(* write_telemetry_to_disk lines 58-64: the list the append starts from;  *)
(* a missing file and a file json.load cannot decode both give [].        *)
load_for_append(file) == IF file.exists /\ file.ok THEN file.data ELSE <<>>

(* write_telemetry_to_disk line 75: open(active_buffer, 'w') creates or   *)
(* truncates the file; until json.dump's output is flushed at close the   *)
(* file on disk is not a JSON document.                                   *)
opened_for_write ==
    [exists |-> TRUE, text |-> TRUE, ok |-> FALSE, data |-> <<>>]

(* write_telemetry_to_disk lines 61-62: a generation file whose bytes the  *)
(* text-mode open(active_buffer, 'r') cannot decode; json.load's f.read()  *)
(* raises UnicodeDecodeError, which is not a json.JSONDecodeError.         *)
corrupt_bytes ==
    [exists |-> TRUE, text |-> FALSE, ok |-> FALSE, data |-> <<>>]

(* write_telemetry_to_disk lines 59-64, 78: the load raises an exception   *)
(* that the inner handler (JSONDecodeError, FileNotFoundError) lets pass.  *)
load_raises(file) == file.exists /\ ~file.text

(* An append that puts the new reading in front of the loaded list.        *)
appended_file_in_front(loaded, reading) == FileOf(<<reading>> \o loaded)

(* write_telemetry_to_disk lines 70-76: the file written back.            *)
appended_file(loaded, reading) == FileOf(Append(loaded, reading))

InitWorkers ==
    /\ archives = <<>>
    /\ write_lock = "free"
    /\ shutdown = FALSE
    /\ archiveTelemetry \in BOOLEAN
    /\ nextId = 1
    /\ rpc = [r \in Readers |-> "cycle"]
    /\ active_buffer = [r \in Readers |-> "A"]
    /\ rdata = [r \in Readers |-> 0]
    /\ rloaded = [r \in Readers |-> <<>>]
    /\ upc = "wait"
    /\ send_buffer = "A"
    /\ telemetry_data = <<>>
    /\ payload_guid = NoGuid
    /\ retry_count = 0
    /\ client = NoClient
    /\ sent_payload_guids = {}
    /\ appended = {}
    /\ delivered = {}
    /\ retained = {}
    /\ rotations = 0
    /\ unlinked = FALSE
    /\ frozen = NotFrozen
    /\ attempts = 0
    /\ failures = 0
    /\ mints = 0
    /\ carried = <<>>
    /\ clients_made = 0
    /\ result = "none"
    /\ cyc = NoCyc
    /\ telemetry_guids = {}
    /\ reading_guid = 0
    /\ reader_tracking = NoTracking
    /\ uploader_tracking = NoTracking
    /\ guid_file = NoTracking
    /\ reading_order = <<>>
    /\ payload_order = <<>>
    /\ last_op = "none"
    /\ captured_by = [i \in ReadingIds |-> "nobody"]

(* The reader loops and the coordinator as the buffer model sees them: all *)
(* ports active and started, each reader at its loop check, main in its    *)
(* monitor loop.                                                           *)
InitPolling ==
    /\ is_active = [r \in Readers |-> TRUE]
    /\ should_simulate = [r \in Readers |-> FALSE]
    /\ lpc = [r \in Readers |-> "check"]
    /\ ser = [r \in Readers |-> FALSE]
    /\ response = [r \in Readers |-> <<>>]
    /\ value = [r \in Readers |-> None]
    /\ port_available = [r \in Readers |-> "unknown"]
    /\ sleep_left = [r \in Readers |-> 0]
    /\ mpc = "monitor"
    /\ main_i = 1
    /\ started = [r \in Readers |-> TRUE]
    /\ grace_left = shutdown_timeout
    /\ stored = [r \in Readers |-> FALSE]
    /\ unavailable_cycles = [r \in Readers |-> 0]
    /\ raised = [r \in Readers |-> FALSE]
    /\ interrupted = FALSE

(* calculate_crc line 82: crc = 0xFFFF.                                    *)
crc_start == 65535

(* No Modbus request has been built.                                       *)
InitRequest ==
    /\ command_bytes = <<>>
    /\ crc_pos = 0
    /\ crc = crc_start
    /\ full_command = <<>>

(* No response has been read.                                              *)
InitResponse ==
    /\ raw_response = <<>>
    /\ decoded_value = None

(* No cycle of the timed reader loop has ended.                            *)
InitTiming ==
    /\ cycle_path = "none"
    /\ cycle_duration = 0
    /\ previous_duration = 0
    /\ slept = 0

(* IoT_script's delivery loop is not running.                              *)
InitHub ==
    /\ hub_pc = "idle"
    /\ hub_retry_count = 0
    /\ hub_success = FALSE
    /\ hub_connected = FALSE
    /\ hub_outcomes = <<>>
    /\ hub_slept = <<>>

(* Nobody is minting a reading identifier.                                 *)
InitLocks ==
    /\ telemetry_guid_lock = "free"
    /\ candidate = [r \in Readers |-> NoGuid]
    /\ got = [r \in Readers |-> NoGuid]

(* The parts that are modelled on their own, at rest.                      *)
InitParts ==
    /\ InitRequest
    /\ InitResponse
    /\ waited = <<>>
    /\ InitTiming
    /\ InitHub
    /\ InitLocks

(* A fresh deployment: no pointer file, no generation files.               *)
Init ==
    /\ ptr = "none"
    /\ buf = [b \in {"A", "B"} |-> NoFile]
    /\ InitWorkers
    /\ InitPolling
    /\ InitParts

(* A start on the disk state an earlier run, stopped at any point, or the  *)
(* storage medium left behind: any pointer content, and generation files   *)
(* that are absent, truncated, undecodable or an empty list.               *)
LeftoverFiles == {NoFile, opened_for_write, corrupt_bytes, FileOf(<<>>)}
AppendInit ==
    /\ ptr \in {"none", "empty", "A", "B"}
    /\ buf \in [{"A", "B"} -> LeftoverFiles]
    /\ InitWorkers
    /\ InitPolling
    /\ InitParts

(* ---------------------------------------------------------- reader worker *)
(* read_telemetry_from_port lines 214-232 and write_telemetry_to_disk line *)
(* 56: a value was read, a reading is built with a fresh readingGUID and   *)
(* the active generation is looked up, before the write lock is taken.     *)
ReaderCapture(r) ==
    /\ rpc[r] = "cycle"
    /\ ~shutdown
    /\ nextId <= MaxReadings
    /\ rdata' = [rdata EXCEPT ![r] = nextId]
    /\ nextId' = nextId + 1
    /\ IF ptr = "none"
       THEN /\ rpc' = [rpc EXCEPT ![r] = "no_pointer"]
            /\ UNCHANGED active_buffer
       ELSE /\ rpc' = [rpc EXCEPT ![r] = "got_active"]
            /\ active_buffer' =
                   [active_buffer EXCEPT ![r] = get_active_buffer(ptr)]
    /\ UNCHANGED <<diskVars, write_lock, shutdown, archiveTelemetry,
                   rloaded, uploaderVars, histVars>>
    /\ captured_by' = [captured_by EXCEPT ![nextId] = r]
    /\ UNCHANGED <<trackVars, pollVars, partVars>>

(* get_active_buffer line 147, called from write_telemetry_to_disk line    *)
(* 56: the reader saw no pointer file and opens it for writing, which      *)
(* creates it or truncates whatever it holds by now.                       *)
ReaderCreateOpen(r) ==
    /\ rpc[r] = "no_pointer"
    /\ ptr' = "empty"
    /\ rpc' = [rpc EXCEPT ![r] = "creating"]
    /\ UNCHANGED <<buf, archives, sharedVars, active_buffer, rdata, rloaded,
                   uploaderVars, histVars>>
    /\ UNCHANGED <<trackVars, pollVars, captured_by, partVars>>

(* get_active_buffer lines 148-149: the pointer content is flushed when    *)
(* the file is closed and BUFFER_A is returned.                            *)
ReaderCreateWrite(r) ==
    /\ rpc[r] = "creating"
    /\ ptr' = created_pointer
    /\ active_buffer' = [active_buffer EXCEPT ![r] = created_pointer]
    /\ rpc' = [rpc EXCEPT ![r] = "got_active"]
    /\ UNCHANGED <<buf, archives, sharedVars, rdata, rloaded,
                   uploaderVars, histVars>>
    /\ UNCHANGED <<trackVars, pollVars, captured_by, partVars>>

(* An append that enters its read-modify-write without waiting for the     *)
(* write lock to be free.                                                  *)
ReaderLoad_unlocked(r) ==
    /\ rpc[r] = "got_active"
    /\ write_lock' = r
    /\ rloaded' = [rloaded EXCEPT ![r] = load_for_append(buf[active_buffer[r]])]
    /\ rpc' = [rpc EXCEPT ![r] = "loaded"]
    /\ UNCHANGED <<diskVars, shutdown, archiveTelemetry, nextId,
                   active_buffer, rdata, uploaderVars, histVars>>
    /\ UNCHANGED <<trackVars, pollVars, captured_by, partVars>>

(* write_telemetry_to_disk lines 57-64: take the write lock and load the   *)
(* generation file (empty when absent or not a JSON document).  Lines      *)
(* 78-79: any other exception of the load leaves the `with`, releasing the *)
(* lock, and is logged; the reading is dropped.                            *)
ReaderLoad(r) ==
    /\ rpc[r] = "got_active"
    /\ write_lock = "free"
    /\ IF load_raises(buf[active_buffer[r]])
       THEN /\ rpc' = [rpc EXCEPT ![r] = "cycle"]
            /\ rdata' = [rdata EXCEPT ![r] = 0]
            /\ UNCHANGED <<write_lock, rloaded>>
       ELSE /\ write_lock' = r
            /\ rloaded' = [rloaded EXCEPT ![r] =
                              load_for_append(buf[active_buffer[r]])]
            /\ rpc' = [rpc EXCEPT ![r] = "loaded"]
            /\ UNCHANGED rdata
    /\ UNCHANGED <<diskVars, shutdown, archiveTelemetry, nextId,
                   active_buffer, uploaderVars, histVars>>
    /\ UNCHANGED <<trackVars, pollVars, captured_by, partVars>>

(* write_telemetry_to_disk lines 70-75: the reading is appended to the     *)
(* loaded list and the generation file is opened for writing.              *)
ReaderTruncate(r) ==
    /\ rpc[r] = "loaded"
    /\ write_lock = r
    /\ buf' = [buf EXCEPT ![active_buffer[r]] = opened_for_write]
    /\ rpc' = [rpc EXCEPT ![r] = "writing"]
    /\ UNCHANGED <<ptr, archives, sharedVars, active_buffer, rdata, rloaded,
                   uploaderVars, histVars>>
    /\ UNCHANGED <<trackVars, pollVars, captured_by, partVars>>

(* write_telemetry_to_disk lines 76-77: json.dump and close write the list *)
(* through the open handle and the lock is released.  If the file was      *)
(* unlinked meanwhile the handle writes to a file that has no name.        *)
ReaderWrite(r) ==
    /\ rpc[r] = "writing"
    /\ write_lock = r
    /\ buf' = IF buf[active_buffer[r]].exists
              THEN [buf EXCEPT ![active_buffer[r]] =
                        appended_file(rloaded[r], rdata[r])]
              ELSE buf
    /\ appended' = appended \cup {rdata[r]}
    /\ write_lock' = "free"
    /\ rloaded' = [rloaded EXCEPT ![r] = <<>>]
    /\ rdata' = [rdata EXCEPT ![r] = 0]
    /\ rpc' = [rpc EXCEPT ![r] = "cycle"]
    /\ UNCHANGED <<ptr, archives, shutdown, archiveTelemetry, nextId,
                   active_buffer, uploaderVars, delivered, retained,
                   rotations, unlinked, frozen, sendHist, result, cyc>>
    /\ UNCHANGED <<trackVars, pollVars, captured_by, partVars>>

(* read_telemetry_from_port line 114: the loop ends once the signal is set *)
ReaderExit(r) ==
    /\ rpc[r] = "cycle"
    /\ shutdown
    /\ rpc' = [rpc EXCEPT ![r] = "done"]
    /\ UNCHANGED <<diskVars, sharedVars, active_buffer, rdata, rloaded,
                   uploaderVars, histVars>>
    /\ UNCHANGED <<trackVars, pollVars, captured_by, partVars>>

(* -------------------------------------------------------- uploader worker *)
(* A safe_client_shutdown that releases only a connected client.           *)
safe_client_shutdown_connected_only(c) ==
    IF c.created /\ c.connected
    THEN [created |-> TRUE, connected |-> FALSE, shut |-> TRUE]
    ELSE c

(* safe_client_shutdown: disconnect when connected, then shutdown; both    *)
(* calls swallow their own errors.  A client that was never created (None) *)
(* is left alone.                                                          *)
safe_client_shutdown(c) ==
    IF ~c.created THEN c
    ELSE [created |-> TRUE, connected |-> FALSE, shut |-> TRUE]

(* A backoff that waits the base time after every failed attempt.          *)
wait_time_flat(rc) == backoff_base

(* send_message_with_retry line 197: wait_time = 5 * retry_count.          *)
wait_time(rc) == backoff_base * rc

(* A retry counter that an exception does not advance.                     *)
next_retry_count_stuck(rc) == rc

(* send_message_with_retry line 189: retry_count += 1.                     *)
next_retry_count(rc) == rc + 1

(* list(a_set): Python fixes no order for the elements of a set, so the    *)
(* list is any arrangement of them.                                        *)
list_of(S) == {l \in [1..Cardinality(S) -> S] : Range(l) = S}

(* a_list[-n:]                                                             *)
last_n(l, n) == IF Len(l) > n THEN SubSeq(l, Len(l) - n + 1, Len(l)) ELSE l

(* A size check that never trims.                                          *)
trimmed_never(l, cap) == l

(* generate_unique_reading_guid lines 41-45 and send_message_with_retry    *)
(* lines 176-180: the list a collection is rebuilt from once it is over    *)
(* its cap.                                                                *)
trimmed(l, cap) == IF Len(l) > cap THEN last_n(l, cap) ELSE l

(* send_message_with_retry lines 172-180: record the sent payloadGUID and  *)
(* keep the collection within its cap; the collections this can give.      *)
track_sent(sent, guid) ==
    {Range(trimmed(l, MAX_TRACKING_SIZE)) : l \in list_of(sent \cup {guid})}

(* common.save_tracked_guids lines 83-89: what is written to the tracking  *)
(* file; the trimming is also done to the caller's dictionary.             *)
save_tracked_guids(guid_data) ==
    [payload_guids |-> last_n(guid_data.payload_guids, MAX_TRACKING_SIZE),
     reading_guids |-> last_n(guid_data.reading_guids, MAX_GUID_CACHE_SIZE)]

(* The order of insertion of the identifiers still retained.               *)
order_after(order, guid, kept) ==
    SelectSeq(Append(SelectSeq(order, LAMBDA x : x # guid), guid),
              LAMBDA x : x \in kept)

(* main lines 234-241: a send is due; take the write lock and look up the  *)
(* active generation.  The cycle's history starts afresh.                  *)
UpBegin ==
    /\ upc = "wait"
    /\ ~shutdown
    /\ write_lock = "free"
    /\ write_lock' = "uploader"
    /\ IF ptr = "none"
       THEN upc' = "no_pointer" /\ UNCHANGED send_buffer
       ELSE upc' = "locked" /\ send_buffer' = get_active_buffer(ptr)
    /\ telemetry_data' = <<>>
    /\ payload_guid' = NoGuid
    /\ retry_count' = 0
    /\ client' = NoClient
    /\ frozen' = NotFrozen
    /\ attempts' = 0
    /\ failures' = 0
    /\ mints' = 0
    /\ carried' = <<>>
    /\ clients_made' = 0
    /\ result' = "none"
    /\ cyc' = NoCyc
    /\ waited' = <<>>
    /\ UNCHANGED <<diskVars, shutdown, archiveTelemetry, nextId,
                   readerVars, sent_payload_guids, appended, delivered,
                   retained, rotations, unlinked>>
    /\ UNCHANGED <<trackVars, pollVars, captured_by, partsButWaited>>

(* get_active_buffer line 147, called from main line 241 under the write   *)
(* lock: the uploader saw no pointer file and opens it for writing.        *)
UpCreateOpen ==
    /\ upc = "no_pointer"
    /\ ptr' = "empty"
    /\ upc' = "creating"
    /\ UNCHANGED <<buf, archives, sharedVars, readerVars, send_buffer,
                   telemetry_data, payload_guid, retry_count, client,
                   sent_payload_guids, histVars>>
    /\ UNCHANGED <<trackVars, pollVars, captured_by, partVars>>

(* get_active_buffer lines 148-149 under the write lock: the pointer       *)
(* content is flushed and BUFFER_A is the send candidate.                  *)
UpCreateWrite ==
    /\ upc = "creating"
    /\ ptr' = created_pointer
    /\ send_buffer' = created_pointer
    /\ upc' = "locked"
    /\ UNCHANGED <<buf, archives, sharedVars, readerVars,
                   telemetry_data, payload_guid, retry_count, client,
                   sent_payload_guids, histVars>>
    /\ UNCHANGED <<trackVars, pollVars, captured_by, partVars>>

(* main lines 242-246: the active generation file exists, so the pointer   *)
(* is flipped and the newly active file is overwritten with an empty list; *)
(* the lock is released.                                                   *)
UpRotate ==
    /\ upc = "locked"
    /\ buf[send_buffer].exists
    /\ ptr' = switch_buffer(ptr)
    /\ buf' = [buf EXCEPT ![switch_buffer(ptr)] = initialized_buffer]
    /\ write_lock' = "free"
    /\ frozen' = [set |-> TRUE, data |-> buf[send_buffer].data]
    /\ rotations' = IF rotations < 2 THEN rotations + 1 ELSE 2
    /\ upc' = "process"
    /\ UNCHANGED <<archives, shutdown, archiveTelemetry, nextId, readerVars,
                   send_buffer, telemetry_data, payload_guid, retry_count,
                   client, sent_payload_guids, appended, delivered, retained,
                   unlinked, sendHist, result, cyc>>
    /\ UNCHANGED <<trackVars, pollVars, captured_by, partVars>>

(* main lines 242, 240: no active generation file, nothing is rotated.     *)
UpNoRotate ==
    /\ upc = "locked"
    /\ ~buf[send_buffer].exists
    /\ write_lock' = "free"
    /\ upc' = "process"
    /\ UNCHANGED <<diskVars, shutdown, archiveTelemetry, nextId, readerVars,
                   send_buffer, telemetry_data, payload_guid, retry_count,
                   client, sent_payload_guids, histVars>>
    /\ UNCHANGED <<trackVars, pollVars, captured_by, partVars>>

(* main lines 249-256, 269-270: outside the lock, the send buffer is read; *)
(* a cycle with no file, an undecodable file or an empty list sends        *)
(* nothing.                                                                *)
UpRead ==
    /\ upc = "process"
    /\ \/ /\ ~buf[send_buffer].exists
          /\ result' = "no_file"
          /\ upc' = "wait"
          /\ UNCHANGED telemetry_data
       \/ /\ buf[send_buffer].exists               \* json.load raised
          /\ ~buf[send_buffer].ok
          /\ result' = "read_error"
          /\ upc' = "wait"
          /\ UNCHANGED telemetry_data
       \/ /\ buf[send_buffer].exists
          /\ buf[send_buffer].ok
          /\ buf[send_buffer].data = <<>>
          /\ result' = "empty"
          /\ upc' = "wait"
          /\ UNCHANGED telemetry_data
       \/ /\ buf[send_buffer].exists
          /\ buf[send_buffer].ok
          /\ buf[send_buffer].data # <<>>
          /\ telemetry_data' = buf[send_buffer].data
          /\ upc' = "probe"
          /\ UNCHANGED result
    /\ UNCHANGED <<diskVars, sharedVars, readerVars, send_buffer,
                   payload_guid, retry_count, client, sent_payload_guids,
                   appended, delivered, retained, rotations, unlinked,
                   frozen, sendHist, cyc>>
    /\ UNCHANGED <<trackVars, pollVars, captured_by, partVars>>

(* A failed probe that is counted as a delivery attempt and a retry.       *)
UpProbeFail_counted ==
    /\ upc = "probe"
    /\ result' = "probe_failed"
    /\ retained' = retained \cup Range(telemetry_data)
    /\ attempts' = attempts + 1
    /\ retry_count' = retry_count + 1
    /\ upc' = "wait"
    /\ UNCHANGED <<diskVars, sharedVars, readerVars, send_buffer,
                   telemetry_data, payload_guid, client,
                   sent_payload_guids, appended, delivered, rotations,
                   unlinked, frozen, failures, mints, carried, clients_made,
                   cyc>>
    /\ UNCHANGED <<trackVars, pollVars, captured_by, partVars>>

(* safe_send_telemetry lines 213-215 and main lines 266-272:               *)
(* check_internet_connection returned False; the cycle ends.               *)
UpProbeFail ==
    /\ upc = "probe"
    /\ result' = "probe_failed"
    /\ retained' = retained \cup Range(telemetry_data)
    /\ upc' = "wait"
    /\ UNCHANGED <<diskVars, sharedVars, readerVars, send_buffer,
                   telemetry_data, payload_guid, retry_count, client,
                   sent_payload_guids, appended, delivered, rotations,
                   unlinked, frozen, sendHist, cyc>>
    /\ UNCHANGED <<trackVars, pollVars, captured_by, partVars>>

(* safe_send_telemetry line 218, send_message_with_retry lines 142-146 and *)
(* prepare_telemetry_payload: the probe succeeded; the payload is built    *)
(* with a payloadGUID that is not in sent_payload_guids.                   *)
UpPrepare ==
    /\ upc = "probe"
    /\ \E g \in PayloadIds \ sent_payload_guids : payload_guid' = g
    /\ mints' = mints + 1
    /\ retry_count' = 0
    /\ upc' = "loop"
    /\ UNCHANGED <<diskVars, sharedVars, readerVars, send_buffer,
                   telemetry_data, client, sent_payload_guids, appended,
                   delivered, retained, rotations, unlinked, frozen,
                   attempts, failures, carried, clients_made, result, cyc>>
    /\ UNCHANGED <<trackVars, pollVars, captured_by, partVars>>

(* send_message_with_retry lines 148-166, 188-190: one delivery attempt.   *)
(* create_client, connect or send_message may raise; retry_count counts    *)
(* every attempt that raised.                                              *)
UpAttempt ==
    /\ upc = "loop"
    /\ retry_count < max_retries
    /\ ~shutdown
    /\ attempts' = attempts + 1
    /\ \/ /\ client' = NoClient                         \* create_client raised
          /\ UNCHANGED <<clients_made, carried, delivered>>
          /\ retry_count' = next_retry_count(retry_count)
          /\ failures' = failures + 1
          /\ upc' = "except"
       \/ /\ client' = [created |-> TRUE, connected |-> FALSE, shut |-> FALSE]
          /\ clients_made' = clients_made + 1           \* connect raised
          /\ UNCHANGED <<carried, delivered>>
          /\ retry_count' = next_retry_count(retry_count)
          /\ failures' = failures + 1
          /\ upc' = "except"
       \/ /\ \E c \in BOOLEAN :                         \* send_message raised
                client' = [created |-> TRUE, connected |-> c, shut |-> FALSE]
          /\ clients_made' = clients_made + 1
          /\ carried' = Append(carried, payload_guid)
          /\ UNCHANGED delivered
          /\ retry_count' = next_retry_count(retry_count)
          /\ failures' = failures + 1
          /\ upc' = "except"
       \/ /\ client' = [created |-> TRUE, connected |-> TRUE, shut |-> FALSE]
          /\ clients_made' = clients_made + 1           \* message sent
          /\ carried' = Append(carried, payload_guid)
          /\ delivered' = delivered \cup Range(telemetry_data)
          /\ UNCHANGED <<retry_count, failures>>
          /\ upc' = "sent"
    /\ UNCHANGED <<diskVars, sharedVars, readerVars, send_buffer,
                   telemetry_data, payload_guid, sent_payload_guids,
                   appended, retained, rotations, unlinked, frozen, mints,
                   result, cyc>>
    /\ UNCHANGED <<trackVars, pollVars, captured_by, partVars>>

(* A retry that prepares the payload again, minting a new payloadGUID.     *)
UpExcept_remint ==
    /\ upc = "except"
    /\ client' = safe_client_shutdown(client)
    /\ waited' = IF retry_count < max_retries
                 THEN Append(waited, wait_time(retry_count))
                 ELSE waited
    /\ \E g \in PayloadIds \ sent_payload_guids : payload_guid' = g
    /\ mints' = mints + 1
    /\ upc' = "loop"
    /\ UNCHANGED <<diskVars, sharedVars, readerVars, send_buffer,
                   telemetry_data, retry_count, sent_payload_guids,
                   appended, delivered, retained, rotations, unlinked,
                   frozen, attempts, failures, carried, clients_made,
                   result, cyc>>
    /\ UNCHANGED <<trackVars, pollVars, captured_by, partsButWaited>>

(* send_message_with_retry lines 192-201: the failed attempt's client is   *)
(* released and, unless it was the last attempt, the backoff wait is       *)
(* slept.                                                                  *)
UpExcept ==
    /\ upc = "except"
    /\ client' = safe_client_shutdown(client)
    /\ waited' = IF retry_count < max_retries
                 THEN Append(waited, wait_time(retry_count))
                 ELSE waited
    /\ upc' = "loop"
    /\ UNCHANGED <<diskVars, sharedVars, readerVars, send_buffer,
                   telemetry_data, payload_guid, retry_count,
                   sent_payload_guids, histVars>>
    /\ UNCHANGED <<trackVars, pollVars, captured_by, partsButWaited>>

(* send_message_with_retry lines 169-186 with update_guid_tracking: the    *)
(* client is released, the payloadGUID is tracked, the tracking file is    *)
(* saved and True is returned; main line 260 follows.                      *)
UpSent ==
    /\ upc = "sent"
    /\ client' = safe_client_shutdown(client)
    /\ \E kept \in track_sent(sent_payload_guids, payload_guid) :
       \E payload_guids \in list_of(kept) :
          LET data == save_tracked_guids(
                          [uploader_tracking EXCEPT
                              !.payload_guids = payload_guids])
          IN  /\ sent_payload_guids' = kept
              /\ uploader_tracking' = data
              /\ guid_file' = data
              /\ payload_order' =
                     order_after(payload_order, payload_guid, kept)
    /\ last_op' = "send"
    /\ result' = "sent"
    /\ cyc' = [set |-> TRUE, narch |-> Len(archives)]
    /\ upc' = "dispose"
    /\ UNCHANGED <<diskVars, sharedVars, readerVars, send_buffer,
                   telemetry_data, payload_guid, retry_count, appended,
                   delivered, retained, rotations, unlinked, frozen,
                   sendHist>>
    /\ UNCHANGED <<telemetry_guids, reading_guid, reader_tracking,
                   reading_order, pollVars, captured_by, partVars>>

(* A give-up that clears the send buffer all the same.                     *)
UpGiveUp_unlinks ==
    /\ upc = "loop"
    /\ retry_count >= max_retries \/ shutdown
    /\ result' = "send_failed"
    /\ retained' = retained \cup Range(telemetry_data)
    /\ buf' = [buf EXCEPT ![send_buffer] = NoFile]
    /\ upc' = "wait"
    /\ UNCHANGED <<ptr, archives, sharedVars, readerVars, send_buffer,
                   telemetry_data, payload_guid, retry_count, client,
                   sent_payload_guids, appended, delivered, rotations,
                   unlinked, frozen, sendHist, cyc>>
    /\ UNCHANGED <<trackVars, pollVars, captured_by, partVars>>

(* send_message_with_retry lines 148, 203 and main lines 266-272: the loop *)
(* ends without a successful attempt and False is returned.                *)
UpGiveUp ==
    /\ upc = "loop"
    /\ retry_count >= max_retries \/ shutdown
    /\ result' = "send_failed"
    /\ retained' = retained \cup Range(telemetry_data)
    /\ upc' = "wait"
    /\ UNCHANGED <<diskVars, sharedVars, readerVars, send_buffer,
                   telemetry_data, payload_guid, retry_count, client,
                   sent_payload_guids, appended, delivered, rotations,
                   unlinked, frozen, sendHist, cyc>>
    /\ UNCHANGED <<trackVars, pollVars, captured_by, partVars>>

(* main lines 263-265: archiving is off; the send buffer is deleted.       *)
UpUnlink ==
    /\ upc = "dispose"
    /\ ~archiveTelemetry
    /\ buf' = [buf EXCEPT ![send_buffer] = NoFile]
    /\ unlinked' = TRUE
    /\ result' = "deleted"
    /\ upc' = "wait"
    /\ UNCHANGED <<ptr, archives, sharedVars, readerVars, send_buffer,
                   telemetry_data, payload_guid, retry_count, client,
                   sent_payload_guids, appended, delivered, retained,
                   rotations, frozen, sendHist, cyc>>
    /\ UNCHANGED <<trackVars, pollVars, captured_by, partVars>>

(* An archive_telemetry_data that removes the source before compressing.   *)
UpArchiveCopy_unlink_first ==
    /\ upc = "dispose"
    /\ archiveTelemetry
    /\ buf' = [buf EXCEPT ![send_buffer] = NoFile]
    /\ unlinked' = TRUE
    /\ \/ /\ buf[send_buffer].exists
          /\ archives' = Append(archives,
                [data |-> buf[send_buffer].data, complete |-> TRUE])
          /\ upc' = "archived"
          /\ UNCHANGED result
       \/ /\ UNCHANGED archives
          /\ result' = "archive_error"
          /\ upc' = "wait"
    /\ UNCHANGED <<ptr, sharedVars, readerVars, send_buffer,
                   telemetry_data, payload_guid, retry_count, client,
                   sent_payload_guids, appended, delivered, retained,
                   rotations, frozen, sendHist, cyc>>
    /\ UNCHANGED <<trackVars, pollVars, captured_by, partVars>>

(* archive_telemetry_data lines 38-48, 51-53: the send buffer is           *)
(* compressed into a new archive file.  mkdir or gzip.open may raise       *)
(* before any archive file exists, the copy may raise leaving a partial    *)
(* archive file; the error is re-raised and main line 269 catches it.      *)
UpArchiveCopy ==
    /\ upc = "dispose"
    /\ archiveTelemetry
    /\ \/ /\ buf[send_buffer].exists
          /\ archives' = Append(archives,
                [data |-> buf[send_buffer].data, complete |-> TRUE])
          /\ upc' = "archived"
          /\ UNCHANGED result
       \/ /\ UNCHANGED archives
          /\ result' = "archive_error"
          /\ upc' = "wait"
       \/ /\ \E k \in 0..(Len(buf[send_buffer].data) - 1) :
                archives' = Append(archives,
                    [data |-> SubSeq(buf[send_buffer].data, 1, k),
                     complete |-> FALSE])
          /\ result' = "archive_error"
          /\ upc' = "wait"
    /\ UNCHANGED <<ptr, buf, sharedVars, readerVars, send_buffer,
                   telemetry_data, payload_guid, retry_count, client,
                   sent_payload_guids, appended, delivered, retained,
                   rotations, unlinked, frozen, sendHist, cyc>>
    /\ UNCHANGED <<trackVars, pollVars, captured_by, partVars>>

(* An archive_telemetry_data that leaves the source in place.              *)
UpArchiveUnlink_keeps_source ==
    /\ upc = "archived"
    /\ result' = "archived"
    /\ upc' = "wait"
    /\ UNCHANGED <<diskVars, sharedVars, readerVars, send_buffer,
                   telemetry_data, payload_guid, retry_count, client,
                   sent_payload_guids, appended, delivered, retained,
                   rotations, unlinked, frozen, sendHist, cyc>>
    /\ UNCHANGED <<trackVars, pollVars, captured_by, partVars>>

(* archive_telemetry_data lines 49-50: the compressed copy is complete;    *)
(* the source is removed.                                                  *)
UpArchiveUnlink ==
    /\ upc = "archived"
    /\ buf' = [buf EXCEPT ![send_buffer] = NoFile]
    /\ unlinked' = TRUE
    /\ result' = "archived"
    /\ upc' = "wait"
    /\ UNCHANGED <<ptr, archives, sharedVars, readerVars, send_buffer,
                   telemetry_data, payload_guid, retry_count, client,
                   sent_payload_guids, appended, delivered, retained,
                   rotations, frozen, sendHist, cyc>>
    /\ UNCHANGED <<trackVars, pollVars, captured_by, partVars>>

(* main line 234: the loop ends once the signal is set.                    *)
UpExit ==
    /\ upc = "wait"
    /\ shutdown
    /\ upc' = "done"
    /\ UNCHANGED <<diskVars, sharedVars, readerVars, send_buffer,
                   telemetry_data, payload_guid, retry_count, client,
                   sent_payload_guids, histVars>>
    /\ UNCHANGED <<trackVars, pollVars, captured_by, partVars>>

(* main lines 276-281: KeyboardInterrupt or a fatal error sets the signal. *)
SetShutdown ==
    /\ ~shutdown
    /\ shutdown' = TRUE
    /\ UNCHANGED <<diskVars, write_lock, archiveTelemetry, nextId,
                   readerVars, uploaderVars, histVars>>
    /\ UNCHANGED <<trackVars, pollVars, captured_by, partVars>>

(* ----------------------------------------------------------- dedup tracker *)
(* A mint that accepts its first candidate, retained or not.               *)
accepted_unchecked(retained_guids) == ReadingGuids

(* generate_unique_reading_guid lines 31-35: the identifiers the loop      *)
(* `while reading_guid in telemetry_guids` can end with.                   *)
accepted(retained_guids) == ReadingGuids \ retained_guids

(* telemetry_reader.generate_unique_reading_guid, under                    *)
(* telemetry_guid_lock: mint, add, trim, persist.                          *)
generate_unique_reading_guid ==
    \E guid \in accepted(telemetry_guids) :
    \E guid_list \in list_of(telemetry_guids \cup {guid}) :
        LET kept == Range(trimmed(guid_list, MAX_GUID_CACHE_SIZE))
        IN  \E reading_guids \in list_of(kept) :
            LET data == save_tracked_guids(
                            [reader_tracking EXCEPT
                                !.reading_guids = reading_guids])
            IN  /\ telemetry_guids' = kept
                /\ reading_guid' = guid
                /\ reader_tracking' = data
                /\ guid_file' = data
                /\ reading_order' = order_after(reading_order, guid, kept)
                /\ last_op' = "mint"
                /\ UNCHANGED <<diskVars, sharedVars, readerVars, uploaderVars,
                               histVars, uploader_tracking, payload_order,
                               pollVars, captured_by, partVars>>

(* telemetry_uploader.prepare_telemetry_payload lines 120-124 and          *)
(* send_message_with_retry lines 172-183 with update_guid_tracking: a      *)
(* payload identifier not in sent_payload_guids was sent; it is added, the *)
(* collection is trimmed and persisted.                                    *)
update_guid_tracking ==
    \E guid \in PayloadIds \ sent_payload_guids :
    \E kept \in track_sent(sent_payload_guids, guid) :
            \E payload_guids \in list_of(kept) :
            LET data == save_tracked_guids(
                            [uploader_tracking EXCEPT
                                !.payload_guids = payload_guids])
            IN  /\ sent_payload_guids' = kept
                /\ uploader_tracking' = data
                /\ guid_file' = data
                /\ payload_order' = order_after(payload_order, guid, kept)
                /\ last_op' = "send"
                /\ UNCHANGED <<diskVars, sharedVars, readerVars, upc,
                               send_buffer, telemetry_data, payload_guid,
                               retry_count, client, histVars, telemetry_guids,
                               reading_guid, reader_tracking, reading_order,
                               pollVars, captured_by, partVars>>

(* telemetry_reader.py lines 18-19 and telemetry_uploader.py lines 29-30:  *)
(* the process is started again and both modules load the tracking file.   *)
reload_tracking ==
    /\ telemetry_guids' = Range(guid_file.reading_guids)
    /\ sent_payload_guids' = Range(guid_file.payload_guids)
    /\ reader_tracking' = guid_file
    /\ uploader_tracking' = guid_file
    /\ reading_order' = guid_file.reading_guids
    /\ payload_order' = guid_file.payload_guids
    /\ last_op' = "restart"
    /\ UNCHANGED <<diskVars, sharedVars, readerVars, upc, send_buffer,
                   telemetry_data, payload_guid, retry_count, client,
                   histVars, reading_guid, guid_file,
                               pollVars, captured_by, partVars>>

TrackNext ==
    \/ generate_unique_reading_guid
    \/ update_guid_tracking
    \/ reload_tracking
TrackSpec == Init /\ [][TrackNext]_vars

(* -------------------------------------------------------- reader poll loop *)
(* What ser.read(expected_response_length) can return, as byte lists: no   *)
(* bytes, the normal answer to the request (address, function, byte count, *)
(* two data bytes, two CRC bytes), an answer cut short, an answer of       *)
(* another device, an answer to another function and a device error        *)
(* (function code with the high bit set, exception code, two CRC bytes).   *)
(* The CRC bytes are never looked at.                                      *)
Responses ==
    { <<>>,
      <<1, 3, 2, 0, 7, 0, 0>>,
      <<1, 3>>,
      <<2, 3, 2, 0, 7, 0, 0>>,
      <<1, 4, 2, 0, 7, 0, 0>>,
      <<1, 131, 2, 0, 9>> }

(* random.uniform(min_sim_value, max_sim_value), line 125.                 *)
SimValues == {5}

(* b[lo:hi] of a bytes object, indices counted from 0 and clipped.         *)
slice(b, lo, hi) ==
    LET top == IF hi < Len(b) THEN hi ELSE Len(b)
    IN  IF lo >= top THEN <<>> ELSE SubSeq(b, lo + 1, top)

(* int.from_bytes(data_bytes, byteorder='big'); 0 for no bytes.            *)
RECURSIVE int_from_bytes(_)
int_from_bytes(bs) ==
    IF bs = <<>> THEN 0
    ELSE 256 * int_from_bytes(SubSeq(bs, 1, Len(bs) - 1)) + bs[Len(bs)]

(* A decoding that takes the data bytes one place early.                   *)
value_of_byte_count(resp) ==
    IF resp # <<>>
    THEN int_from_bytes(slice(resp, 2, 2 + num_registers * 2))
    ELSE None

(* read_telemetry_from_port lines 182-198: the value a response gives, in  *)
(* units of 0.1; None for an empty response.                               *)
value_of(resp) ==
    IF resp # <<>>
    THEN int_from_bytes(slice(resp, 3, 3 + num_registers * 2))
    ELSE None

(* read_telemetry_from_port line 250: the wait after a cycle, at least one *)
(* tick and at most the read interval.                                     *)
wait_times == 1..seconds_between_reads

(* read_telemetry_from_port lines 94-112: the thread function is entered;  *)
(* a port that is not active returns at once.                              *)
read_telemetry_from_port(r) ==
    /\ lpc[r] = "entered"
    /\ lpc' = [lpc EXCEPT ![r] = IF is_active[r] THEN "check" ELSE "done"]
    /\ UNCHANGED <<is_active, should_simulate, ser, response, value,
                   port_available, sleep_left, mpc, main_i, started,
                   grace_left, stored, unavailable_cycles, raised,
                   interrupted>>
    /\ UNCHANGED <<diskVars, sharedVars, readerVars, uploaderVars, histVars,
                   trackVars, captured_by, partVars>>

(* A reader loop that never looks at the signal (while True).              *)
LoopCheck_while_true(r) ==
    /\ lpc[r] = "check"
    /\ response' = [response EXCEPT ![r] = <<>>]
    /\ raised' = [raised EXCEPT ![r] = FALSE]
    /\ port_available' = [port_available EXCEPT ![r] = "unknown"]
    /\ stored' = [stored EXCEPT ![r] = FALSE]
    /\ unavailable_cycles' =
           [unavailable_cycles EXCEPT ![r] =
               IF port_available[r] = "no" THEN @ ELSE 0]
    /\ IF should_simulate[r]
       THEN /\ \E v \in SimValues : value' = [value EXCEPT ![r] = v]
            /\ lpc' = [lpc EXCEPT ![r] = "value"]
       ELSE /\ value' = [value EXCEPT ![r] = None]
            /\ lpc' = [lpc EXCEPT ![r] = "probe"]
    /\ UNCHANGED <<is_active, should_simulate, ser, sleep_left, mpc, main_i,
                   started, grace_left, interrupted>>
    /\ UNCHANGED <<diskVars, sharedVars, readerVars, uploaderVars, histVars,
                   trackVars, captured_by, partVars>>

(* read_telemetry_from_port lines 114-128 and 255: the loop check.  With   *)
(* the signal set the function returns; otherwise a cycle starts, and a    *)
(* simulated port draws its value at once.                                 *)
LoopCheck(r) ==
    /\ lpc[r] = "check"
    /\ IF shutdown
       THEN /\ lpc' = [lpc EXCEPT ![r] = "done"]
            /\ UNCHANGED <<response, value, port_available, stored,
                           unavailable_cycles, raised>>
       ELSE /\ response' = [response EXCEPT ![r] = <<>>]
            /\ raised' = [raised EXCEPT ![r] = FALSE]
            /\ port_available' = [port_available EXCEPT ![r] = "unknown"]
            /\ stored' = [stored EXCEPT ![r] = FALSE]
            /\ unavailable_cycles' =
                   [unavailable_cycles EXCEPT ![r] =
                       IF port_available[r] = "no" THEN @ ELSE 0]
            /\ IF should_simulate[r]
               THEN /\ \E v \in SimValues : value' = [value EXCEPT ![r] = v]
                    /\ lpc' = [lpc EXCEPT ![r] = "value"]
               ELSE /\ value' = [value EXCEPT ![r] = None]
                    /\ lpc' = [lpc EXCEPT ![r] = "probe"]
    /\ UNCHANGED <<is_active, should_simulate, ser, sleep_left, mpc, main_i,
                   started, grace_left, interrupted>>
    /\ UNCHANGED <<diskVars, sharedVars, readerVars, uploaderVars, histVars,
                   trackVars, captured_by, partVars>>

(* A port check that logs the missing port and goes on to open it.         *)
PortProbe_no_continue(r) ==
    /\ lpc[r] = "probe"
    /\ \/ /\ port_available' = [port_available EXCEPT ![r] = "no"]
          /\ unavailable_cycles' =
                 [unavailable_cycles EXCEPT ![r] =
                     IF @ < MaxSkipped THEN @ + 1 ELSE @]
          /\ lpc' = [lpc EXCEPT ![r] = "open"]
          /\ UNCHANGED sleep_left
          /\ UNCHANGED raised
       \/ /\ port_available' = [port_available EXCEPT ![r] = "yes"]
          /\ lpc' = [lpc EXCEPT ![r] = "open"]
          /\ UNCHANGED <<unavailable_cycles, sleep_left, raised>>
       \/ /\ raised' = [raised EXCEPT ![r] = TRUE]
          /\ \E w \in wait_times :
                sleep_left' = [sleep_left EXCEPT ![r] = w]
          /\ lpc' = [lpc EXCEPT ![r] = "wait"]
          /\ UNCHANGED <<port_available, unavailable_cycles>>
    /\ UNCHANGED <<is_active, should_simulate, ser, response, value, mpc,
                   main_i, started, grace_left, stored, interrupted>>
    /\ UNCHANGED <<diskVars, sharedVars, readerVars, uploaderVars, histVars,
                   trackVars, captured_by, partVars>>

(* read_telemetry_from_port lines 130-133: is_port_available.  A port that *)
(* is not there is logged, the read interval is slept with time.sleep and  *)
(* the loop continues; an error of the port listing is caught at line 239. *)
PortProbe(r) ==
    /\ lpc[r] = "probe"
    /\ \/ /\ port_available' = [port_available EXCEPT ![r] = "no"]
          /\ unavailable_cycles' =
                 [unavailable_cycles EXCEPT ![r] =
                     IF @ < MaxSkipped THEN @ + 1 ELSE @]
          /\ sleep_left' = [sleep_left EXCEPT ![r] = seconds_between_reads]
          /\ lpc' = [lpc EXCEPT ![r] = "sleep"]
          /\ UNCHANGED raised
       \/ /\ port_available' = [port_available EXCEPT ![r] = "yes"]
          /\ lpc' = [lpc EXCEPT ![r] = "open"]
          /\ UNCHANGED <<unavailable_cycles, sleep_left, raised>>
       \/ /\ raised' = [raised EXCEPT ![r] = TRUE]
          /\ \E w \in wait_times :
                sleep_left' = [sleep_left EXCEPT ![r] = w]
          /\ lpc' = [lpc EXCEPT ![r] = "wait"]
          /\ UNCHANGED <<port_available, unavailable_cycles>>
    /\ UNCHANGED <<is_active, should_simulate, ser, response, value, mpc,
                   main_i, started, grace_left, stored, interrupted>>
    /\ UNCHANGED <<diskVars, sharedVars, readerVars, uploaderVars, histVars,
                   trackVars, captured_by, partVars>>

(* An open whose error no handler of the loop catches: the thread dies.    *)
SerialOpen_uncaught(r) ==
    /\ lpc[r] = "open"
    /\ \/ /\ ser' = [ser EXCEPT ![r] = TRUE]
          /\ lpc' = [lpc EXCEPT ![r] = "exchange"]
          /\ UNCHANGED raised
       \/ /\ raised' = [raised EXCEPT ![r] = TRUE]
          /\ lpc' = [lpc EXCEPT ![r] = "crashed"]
          /\ UNCHANGED ser
    /\ UNCHANGED <<is_active, should_simulate, response, value,
                   port_available, sleep_left, mpc, main_i, started,
                   grace_left, stored, unavailable_cycles, interrupted>>
    /\ UNCHANGED <<diskVars, sharedVars, readerVars, uploaderVars, histVars,
                   trackVars, captured_by, partVars>>

(* read_telemetry_from_port lines 135-156, 209-212: serial.Serial opens    *)
(* the port, or raises and the error is logged.                            *)
SerialOpen(r) ==
    /\ lpc[r] = "open"
    /\ \/ /\ ser' = [ser EXCEPT ![r] = TRUE]
          /\ lpc' = [lpc EXCEPT ![r] = "exchange"]
          /\ UNCHANGED raised
       \/ /\ raised' = [raised EXCEPT ![r] = TRUE]
          /\ lpc' = [lpc EXCEPT ![r] = "value"]
          /\ UNCHANGED ser
    /\ UNCHANGED <<is_active, should_simulate, response, value,
                   port_available, sleep_left, mpc, main_i, started,
                   grace_left, stored, unavailable_cycles, interrupted>>
    /\ UNCHANGED <<diskVars, sharedVars, readerVars, uploaderVars, histVars,
                   trackVars, captured_by, partVars>>

(* read_telemetry_from_port lines 158-205: the request is written and the  *)
(* response read and converted; ser.write or ser.read may raise, which     *)
(* leaves the value None.                                                  *)
Exchange(r) ==
    /\ lpc[r] = "exchange"
    /\ \/ /\ \E resp \in Responses :
                /\ response' = [response EXCEPT ![r] = resp]
                /\ value' = [value EXCEPT ![r] = value_of(resp)]
          /\ UNCHANGED raised
       \/ /\ raised' = [raised EXCEPT ![r] = TRUE]
          /\ UNCHANGED <<response, value>>
    /\ lpc' = [lpc EXCEPT ![r] = "finally"]
    /\ UNCHANGED <<is_active, should_simulate, ser, port_available,
                   sleep_left, mpc, main_i, started, grace_left, stored,
                   unavailable_cycles, interrupted>>
    /\ UNCHANGED <<diskVars, sharedVars, readerVars, uploaderVars, histVars,
                   trackVars, captured_by, partVars>>

(* A close that is skipped when the exchange gave no value.                *)
SerialClose_only_on_value(r) ==
    /\ lpc[r] = "finally"
    /\ ser' = [ser EXCEPT ![r] = (response[r] = <<>> /\ value[r] = None)]
    /\ lpc' = [lpc EXCEPT ![r] = "value"]
    /\ UNCHANGED <<is_active, should_simulate, response, value,
                   port_available, sleep_left, mpc, main_i, started,
                   grace_left, stored, unavailable_cycles, raised,
                   interrupted>>
    /\ UNCHANGED <<diskVars, sharedVars, readerVars, uploaderVars, histVars,
                   trackVars, captured_by, partVars>>

(* read_telemetry_from_port lines 206-212: the finally clause closes the   *)
(* port on every way out of the exchange.                                  *)
SerialClose(r) ==
    /\ lpc[r] = "finally"
    /\ ser' = [ser EXCEPT ![r] = FALSE]
    /\ lpc' = [lpc EXCEPT ![r] = "value"]
    /\ UNCHANGED <<is_active, should_simulate, response, value,
                   port_available, sleep_left, mpc, main_i, started,
                   grace_left, stored, unavailable_cycles, raised,
                   interrupted>>
    /\ UNCHANGED <<diskVars, sharedVars, readerVars, uploaderVars, histVars,
                   trackVars, captured_by, partVars>>

(* read_telemetry_from_port lines 214-251: a value that is not None is     *)
(* made a reading and handed to write_telemetry_to_disk (whose steps are   *)
(* the reader worker's actions above); the wait time is computed.          *)
StoreReading(r) ==
    /\ lpc[r] = "value"
    /\ stored' = [stored EXCEPT ![r] = (value[r] # None)]
    /\ \E w \in wait_times : sleep_left' = [sleep_left EXCEPT ![r] = w]
    /\ lpc' = [lpc EXCEPT ![r] = "wait"]
    /\ UNCHANGED <<is_active, should_simulate, ser, response, value,
                   port_available, mpc, main_i, started, grace_left,
                   unavailable_cycles, raised, interrupted>>
    /\ UNCHANGED <<diskVars, sharedVars, readerVars, uploaderVars, histVars,
                   trackVars, captured_by, partVars>>

(* read_telemetry_from_port line 253: shutdown_event.wait(wait_time)       *)
(* returns when the signal is set or the time is up.                       *)
shutdown_event_wait(r) ==
    /\ lpc[r] = "wait"
    /\ IF ~shutdown /\ sleep_left[r] > 0
       THEN /\ sleep_left' = [sleep_left EXCEPT ![r] = @ - 1]
            /\ UNCHANGED lpc
       ELSE /\ sleep_left' = [sleep_left EXCEPT ![r] = 0]
            /\ lpc' = [lpc EXCEPT ![r] = "check"]
    /\ UNCHANGED <<is_active, should_simulate, ser, response, value,
                   port_available, mpc, main_i, started, grace_left, stored,
                   unavailable_cycles, raised, interrupted>>
    /\ UNCHANGED <<diskVars, sharedVars, readerVars, uploaderVars, histVars,
                   trackVars, captured_by, partVars>>

(* read_telemetry_from_port lines 132-133: time.sleep(seconds_between_     *)
(* reads) returns when the time is up, whatever the signal; then continue. *)
time_sleep(r) ==
    /\ lpc[r] = "sleep"
    /\ IF sleep_left[r] > 0
       THEN /\ sleep_left' = [sleep_left EXCEPT ![r] = @ - 1]
            /\ UNCHANGED lpc
       ELSE /\ lpc' = [lpc EXCEPT ![r] = "check"]
            /\ UNCHANGED sleep_left
    /\ UNCHANGED <<is_active, should_simulate, ser, response, value,
                   port_available, mpc, main_i, started, grace_left, stored,
                   unavailable_cycles, raised, interrupted>>
    /\ UNCHANGED <<diskVars, sharedVars, readerVars, uploaderVars, histVars,
                   trackVars, captured_by, partVars>>

(* A start loop that starts a thread for every configured port.           *)
main_start_all ==
    /\ mpc = "starting"
    /\ LET r == SERIAL_PORTS[main_i]
       IN  /\ started' = [started EXCEPT ![r] = TRUE]
           /\ lpc' = [lpc EXCEPT ![r] = "entered"]
    /\ IF main_i < Len(SERIAL_PORTS)
       THEN main_i' = main_i + 1 /\ UNCHANGED mpc
       ELSE main_i' = 1 /\ mpc' = "monitor"
    /\ UNCHANGED <<is_active, should_simulate, ser, response, value,
                   port_available, sleep_left, grace_left, stored,
                   unavailable_cycles, raised, interrupted>>
    /\ UNCHANGED <<diskVars, sharedVars, readerVars, uploaderVars, histVars,
                   trackVars, captured_by, partVars>>

(* --------------------------------------------------- lifecycle coordinator *)
(* IoT_script.main lines 407-413: a thread is started for the next         *)
(* configured port if it is active; after the last port main monitors.     *)
main_start ==
    /\ mpc = "starting"
    /\ LET r == SERIAL_PORTS[main_i]
       IN  IF is_active[r]
           THEN /\ started' = [started EXCEPT ![r] = TRUE]
                /\ lpc' = [lpc EXCEPT ![r] = "entered"]
           ELSE UNCHANGED <<started, lpc>>
    /\ IF main_i < Len(SERIAL_PORTS)
       THEN main_i' = main_i + 1 /\ UNCHANGED mpc
       ELSE main_i' = 1 /\ mpc' = "monitor"
    /\ UNCHANGED <<is_active, should_simulate, ser, response, value,
                   port_available, sleep_left, grace_left, stored,
                   unavailable_cycles, raised, interrupted>>
    /\ UNCHANGED <<diskVars, sharedVars, readerVars, uploaderVars, histVars,
                   trackVars, captured_by, partVars>>

(* IoT_script.main lines 423-443: the monitor loop ends on                 *)
(* KeyboardInterrupt or when a started thread is found dead; the finally   *)
(* clause sets the signal and starts the grace period.                     *)
main_monitor ==
    /\ mpc = "monitor"
    /\ \/ interrupted' = TRUE
       \/ /\ \E r \in Readers : started[r] /\ lpc[r] \in {"done", "crashed"}
          /\ UNCHANGED interrupted
    /\ shutdown' = TRUE
    /\ grace_left' = shutdown_timeout
    /\ main_i' = 1
    /\ mpc' = "join"
    /\ UNCHANGED <<is_active, should_simulate, lpc, ser, response, value,
                   port_available, sleep_left, started, stored,
                   unavailable_cycles, raised>>
    /\ UNCHANGED <<diskVars, write_lock, archiveTelemetry, nextId,
                   readerVars, uploaderVars, histVars, trackVars,
                   captured_by, partVars>>

(* A join that waits for its thread without a timeout.                     *)
main_join_no_timeout ==
    /\ mpc = "join"
    /\ main_i <= Len(SERIAL_PORTS)
    /\ LET t == SERIAL_PORTS[main_i]
       IN  /\ ~started[t] \/ lpc[t] \in {"done", "crashed"}
           /\ main_i' = main_i + 1
           /\ UNCHANGED grace_left
    /\ UNCHANGED <<is_active, should_simulate, lpc, ser, response, value,
                   port_available, sleep_left, mpc, started, stored,
                   unavailable_cycles, raised, interrupted>>
    /\ UNCHANGED <<diskVars, sharedVars, readerVars, uploaderVars, histVars,
                   trackVars, captured_by, partVars>>

(* IoT_script.main lines 446-453: the threads are joined in turn, each for *)
(* what is left of shutdown_timeout; a thread still alive then is logged.  *)
(* A second KeyboardInterrupt ends the joins.                              *)
main_join ==
    /\ mpc = "join"
    /\ main_i <= Len(SERIAL_PORTS)
    /\ LET t == SERIAL_PORTS[main_i]
       IN  \/ /\ ~started[t] \/ lpc[t] \in {"done", "crashed"}
              /\ main_i' = main_i + 1
              /\ UNCHANGED grace_left
           \/ /\ started[t] /\ lpc[t] \notin {"done", "crashed"}
              /\ IF grace_left > 0
                 THEN grace_left' = grace_left - 1 /\ UNCHANGED main_i
                 ELSE main_i' = main_i + 1 /\ UNCHANGED grace_left
           \/ /\ main_i' = Len(SERIAL_PORTS) + 1
              /\ UNCHANGED grace_left
    /\ UNCHANGED <<is_active, should_simulate, lpc, ser, response, value,
                   port_available, sleep_left, mpc, started, stored,
                   unavailable_cycles, raised, interrupted>>
    /\ UNCHANGED <<diskVars, sharedVars, readerVars, uploaderVars, histVars,
                   trackVars, captured_by, partVars>>

(* IoT_script.main lines 455-459: the sink client is shut down, errors     *)
(* logged, and main returns; the daemon threads end with the process.      *)
main_exit ==
    /\ mpc = "join"
    /\ main_i > Len(SERIAL_PORTS)
    /\ mpc' = "exited"
    /\ UNCHANGED <<is_active, should_simulate, lpc, ser, response, value,
                   port_available, sleep_left, main_i, started, grace_left,
                   stored, unavailable_cycles, raised, interrupted>>
    /\ UNCHANGED <<diskVars, sharedVars, readerVars, uploaderVars, histVars,
                   trackVars, captured_by, partVars>>

(* The process is launched with any configuration of its ports: no thread  *)
(* runs yet, main is about to start them.                                  *)
PollInit ==
    /\ ptr = "none"
    /\ buf = [b \in {"A", "B"} |-> NoFile]
    /\ InitWorkers
    /\ InitParts
    /\ archiveTelemetry = FALSE
    /\ is_active \in [Readers -> BOOLEAN]
    /\ should_simulate \in [Readers -> BOOLEAN]
    /\ lpc = [r \in Readers |-> "idle"]
    /\ ser = [r \in Readers |-> FALSE]
    /\ response = [r \in Readers |-> <<>>]
    /\ value = [r \in Readers |-> None]
    /\ port_available = [r \in Readers |-> "unknown"]
    /\ sleep_left = [r \in Readers |-> 0]
    /\ mpc = "starting"
    /\ main_i = 1
    /\ started = [r \in Readers |-> FALSE]
    /\ grace_left = shutdown_timeout
    /\ stored = [r \in Readers |-> FALSE]
    /\ unavailable_cycles = [r \in Readers |-> 0]
    /\ raised = [r \in Readers |-> FALSE]
    /\ interrupted = FALSE

PollReaderNext == \E r \in Readers :
    \/ read_telemetry_from_port(r) \/ LoopCheck(r) \/ PortProbe(r)
    \/ SerialOpen(r) \/ Exchange(r) \/ SerialClose(r) \/ StoreReading(r)
    \/ shutdown_event_wait(r) \/ time_sleep(r)
CoordinatorNext == main_start \/ main_monitor \/ main_join \/ main_exit
PollNext ==
    \/ \E r \in Readers : read_telemetry_from_port(r)
    \/ \E r \in Readers : LoopCheck(r)
    \/ \E r \in Readers : PortProbe(r)
    \/ \E r \in Readers : SerialOpen(r)
    \/ \E r \in Readers : Exchange(r)
    \/ \E r \in Readers : SerialClose(r)
    \/ \E r \in Readers : StoreReading(r)
    \/ \E r \in Readers : shutdown_event_wait(r)
    \/ \E r \in Readers : time_sleep(r)
    \/ main_start
    \/ main_monitor
    \/ main_join
    \/ main_exit
PollSpec == PollInit /\ [][PollNext]_vars

Next ==
    \/ \E r \in Readers : ReaderCapture(r)
    \/ \E r \in Readers : ReaderCreateOpen(r)
    \/ \E r \in Readers : ReaderCreateWrite(r)
    \/ \E r \in Readers : ReaderLoad(r)
    \/ \E r \in Readers : ReaderTruncate(r)
    \/ \E r \in Readers : ReaderWrite(r)
    \/ \E r \in Readers : ReaderExit(r)
    \/ UpBegin
    \/ UpCreateOpen
    \/ UpCreateWrite
    \/ UpRotate
    \/ UpNoRotate
    \/ UpRead
    \/ UpProbeFail
    \/ UpPrepare
    \/ UpAttempt
    \/ UpExcept
    \/ UpSent
    \/ UpGiveUp
    \/ UpUnlink
    \/ UpArchiveCopy
    \/ UpArchiveUnlink
    \/ UpExit
    \/ SetShutdown

Spec == Init /\ [][Next]_vars

(* The scheduling of the workers: every worker thread keeps running (weak  *)
(* fairness of each worker's steps), and the sink is eventually reachable  *)
(* and eventually accepts a send (strong fairness of the successful probe  *)
(* and of the successful attempt).                                         *)
ReaderNext == \E r \in Readers :
    \/ ReaderCapture(r) \/ ReaderCreateOpen(r) \/ ReaderCreateWrite(r)
    \/ ReaderLoad(r) \/ ReaderTruncate(r) \/ ReaderWrite(r) \/ ReaderExit(r)
UploaderNext ==
    \/ UpBegin \/ UpCreateOpen \/ UpCreateWrite
    \/ UpRotate \/ UpNoRotate \/ UpRead \/ UpProbeFail
    \/ UpPrepare \/ UpAttempt \/ UpExcept \/ UpSent \/ UpGiveUp
    \/ UpUnlink \/ UpArchiveCopy \/ UpArchiveUnlink \/ UpExit
AttemptAccepted == UpAttempt /\ upc' = "sent"
(* The reader workers alone, started on a leftover disk state.              *)
AppendNext == ReaderNext \/ SetShutdown
AppendSpec == AppendInit /\ [][AppendNext]_vars

FairSpec ==
    /\ Spec
    /\ WF_vars(ReaderNext)
    /\ WF_vars(UploaderNext)
    /\ SF_vars(UpPrepare)
    /\ SF_vars(AttemptAccepted)

(* The coordinator keeps running whatever the workers do.                  *)
CoordSpec == PollSpec /\ WF_vars(CoordinatorNext)

(* The worker loops of a gateway that is running when the signal is set:   *)
(* port1 polled live, port2 simulated, both threads at their loop check,   *)
(* archiving off, and the uploader with the generation an earlier run left *)
(* behind.                                                                 *)
ShutdownInit ==
    /\ ptr = "A"
    /\ buf = [b \in {"A", "B"} |-> IF b = "A" THEN FileOf(<<1>>) ELSE NoFile]
    /\ InitWorkers
    /\ InitParts
    /\ archiveTelemetry = FALSE
    /\ is_active = [r \in Readers |-> TRUE]
    /\ should_simulate = [r \in Readers |-> r # SERIAL_PORTS[1]]
    /\ lpc = [r \in Readers |-> "check"]
    /\ ser = [r \in Readers |-> FALSE]
    /\ response = [r \in Readers |-> <<>>]
    /\ value = [r \in Readers |-> None]
    /\ port_available = [r \in Readers |-> "unknown"]
    /\ sleep_left = [r \in Readers |-> 0]
    /\ mpc = "monitor"
    /\ main_i = 1
    /\ started = [r \in Readers |-> TRUE]
    /\ grace_left = shutdown_timeout
    /\ stored = [r \in Readers |-> FALSE]
    /\ unavailable_cycles = [r \in Readers |-> 0]
    /\ raised = [r \in Readers |-> FALSE]
    /\ interrupted = FALSE

ShutdownNext ==
    \/ \E r \in Readers : LoopCheck(r)
    \/ \E r \in Readers : PortProbe(r)
    \/ \E r \in Readers : SerialOpen(r)
    \/ \E r \in Readers : Exchange(r)
    \/ \E r \in Readers : SerialClose(r)
    \/ \E r \in Readers : StoreReading(r)
    \/ \E r \in Readers : shutdown_event_wait(r)
    \/ \E r \in Readers : time_sleep(r)
    \/ UpBegin
    \/ UpRotate
    \/ UpRead
    \/ UpProbeFail
    \/ UpPrepare
    \/ UpAttempt
    \/ UpExcept
    \/ UpSent
    \/ UpGiveUp
    \/ UpUnlink
    \/ UpExit
    \/ SetShutdown

(* The workers keep running: as long as some worker can make a step, some  *)
(* worker does (no call blocks for ever).                                  *)
ShutdownSpec ==
    /\ ShutdownInit
    /\ [][ShutdownNext]_vars
    /\ WF_vars(PollReaderNext \/ UploaderNext)

(* ---------------------------------------------------------- Modbus request *)
(* a ^ b on non-negative integers.                                         *)
RECURSIVE xor(_, _)
xor(a, b) ==
    IF a = 0 THEN b
    ELSE IF b = 0 THEN a
    ELSE 2 * xor(a \div 2, b \div 2) + ((a + b) % 2)

(* calculate_crc lines 86-90: one round of the inner loop.                 *)
crc_round(reg) ==
    IF reg % 2 # 0 THEN xor(reg \div 2, 40961)          \* 0xA001
    ELSE reg \div 2

(* calculate_crc line 85: for _ in range(8).                               *)
RECURSIVE crc_rounds(_, _)
crc_rounds(reg, n) == IF n = 0 THEN reg ELSE crc_rounds(crc_round(reg), n - 1)

(* calculate_crc lines 84-90: the register after one more byte.            *)
crc_after(reg, byte) == crc_rounds(xor(reg, byte), 8)

(* A to_bytes that emits the high byte first.                              *)
to_bytes_big_endian(reg) == <<reg \div 256, reg % 256>>

(* calculate_crc line 91: crc.to_bytes(2, byteorder='little').             *)
to_bytes(reg) == <<reg % 256, reg \div 256>>

(* The request of the default configuration, 01 03 00 00 00 01 (device 1,  *)
(* function 3, start address 0, one register), and its published CRC.      *)
reference_command == <<device_address, function_code, 0, 0, 0, num_registers>>
reference_crc == <<132, 10>>                              \* 84 0A

(* The requests other configurations give that differ from the reference   *)
(* request in exactly one byte.                                            *)
corrupted_commands ==
    UNION {{[reference_command EXCEPT ![i] = b] :
                b \in (0..255) \ {reference_command[i]}} :
            i \in 1..Len(reference_command)}

(* calculate_crc lines 83-90, called from read_telemetry_from_port line    *)
(* 170: one turn of the loop over the bytes of the request.                *)
calculate_crc ==
    /\ full_command = <<>>
    /\ crc_pos < Len(command_bytes)
    /\ crc' = crc_after(crc, command_bytes[crc_pos + 1])
    /\ crc_pos' = crc_pos + 1
    /\ UNCHANGED <<diskVars, sharedVars, readerVars, uploaderVars, histVars,
                   trackVars, pollVars, captured_by, command_bytes,
                   full_command, partsButRequest>>

(* calculate_crc line 91 and read_telemetry_from_port line 171: the CRC is *)
(* returned as bytes and appended to the request.                          *)
BuildCommand ==
    /\ full_command = <<>>
    /\ command_bytes # <<>>
    /\ crc_pos = Len(command_bytes)
    /\ full_command' = command_bytes \o to_bytes(crc)
    /\ UNCHANGED <<diskVars, sharedVars, readerVars, uploaderVars, histVars,
                   trackVars, pollVars, captured_by, command_bytes, crc_pos,
                   crc, partsButRequest>>

(* The request is built for the reference configuration or for one that    *)
(* differs from it in one byte of the request.                             *)
CrcInit ==
    /\ ptr = "none"
    /\ buf = [b \in {"A", "B"} |-> NoFile]
    /\ InitWorkers
    /\ archiveTelemetry = FALSE
    /\ InitPolling
    /\ command_bytes \in {reference_command} \cup corrupted_commands
    /\ crc_pos = 0
    /\ crc = crc_start
    /\ full_command = <<>>
    /\ InitResponse
    /\ waited = <<>>
    /\ InitTiming
    /\ InitHub
    /\ InitLocks

CrcNext ==
    \/ calculate_crc
    \/ BuildCommand
CrcSpec == CrcInit /\ [][CrcNext]_vars

(* --------------------------------------------------------- Modbus response *)
(* The bytes a data register pair is made of in the responses looked at.   *)
data_byte_values == {0, 1, 7, 127, 128, 144, 255}

(* What follows the data bytes; it is never looked at.                     *)
crc_endings == {<<0, 0>>, <<185, 184>>}

(* Answers of full length to the reference request: address, function,     *)
(* byte count, the two bytes of the register, two CRC bytes.               *)
full_responses ==
    {<<device_address, function_code, 2 * num_registers, hi, lo>> \o e :
        hi \in data_byte_values, lo \in data_byte_values, e \in crc_endings}

(* read_telemetry_from_port lines 180-192: the response is decoded.        *)
DecodeResponse ==
    /\ raw_response # <<>>
    /\ decoded_value = None
    /\ decoded_value' = value_of(raw_response)
    /\ UNCHANGED <<diskVars, sharedVars, readerVars, uploaderVars, histVars,
                   trackVars, pollVars, captured_by, raw_response,
                   partsButResponse>>

(* ser.read has returned an answer of full length.                         *)
DecodeInit ==
    /\ ptr = "none"
    /\ buf = [b \in {"A", "B"} |-> NoFile]
    /\ InitWorkers
    /\ archiveTelemetry = FALSE
    /\ InitPolling
    /\ InitRequest
    /\ raw_response \in full_responses
    /\ decoded_value = None
    /\ waited = <<>>
    /\ InitTiming
    /\ InitHub
    /\ InitLocks

DecodeNext == DecodeResponse
DecodeSpec == DecodeInit /\ [][DecodeNext]_vars

(* ------------------------------------------------------ reader loop timing *)
(* seconds_between_reads in tenths of a second.                            *)
read_interval == 10 * seconds_between_reads

(* time.time() differences, lines 115 and 245-246: what a cycle can take.  *)
Durations == 0..MaxDuration

(* A wait that is whatever is left of the interval, without a floor.       *)
cycle_wait_time_no_floor(duration) == read_interval - duration

(* read_telemetry_from_port line 250:                                      *)
(* wait_time = max(0.1, seconds_between_reads - cycle_duration).           *)
cycle_wait_time(duration) ==
    IF read_interval - duration > min_wait
    THEN read_interval - duration
    ELSE min_wait

(* read_telemetry_from_port lines 115, 244-253: a cycle that was simulated *)
(* or polled runs to the end of the loop body; its duration is measured    *)
(* from its own start and the wait is computed from it.                    *)
CycleEnd ==
    \E duration \in Durations :
        /\ cycle_path' = "end"
        /\ previous_duration' = cycle_duration
        /\ cycle_duration' = duration
        /\ slept' = cycle_wait_time(duration)
        /\ UNCHANGED <<diskVars, sharedVars, readerVars, uploaderVars,
                       histVars, trackVars, pollVars, captured_by,
                       partsButTiming>>

(* read_telemetry_from_port lines 115, 130-133: the port is not available, *)
(* the cycle sleeps seconds_between_reads and continues with the next one. *)
CycleSkipped ==
    \E duration \in Durations :
        /\ cycle_path' = "skip"
        /\ previous_duration' = cycle_duration
        /\ cycle_duration' = duration
        /\ slept' = read_interval
        /\ UNCHANGED <<diskVars, sharedVars, readerVars, uploaderVars,
                       histVars, trackVars, pollVars, captured_by,
                       partsButTiming>>

(* One reader loop, timed.                                                 *)
TimingInit ==
    /\ ptr = "none"
    /\ buf = [b \in {"A", "B"} |-> NoFile]
    /\ InitWorkers
    /\ archiveTelemetry = FALSE
    /\ InitPolling
    /\ InitParts

TimingNext ==
    \/ CycleEnd
    \/ CycleSkipped
TimingSpec == TimingInit /\ [][TimingNext]_vars

(* ------------------------------------------- IoT_script's delivery loop *)
(* IoT_script.send_telemetry_to_iot_hub line 375: time.sleep(2 **          *)
(* retry_count).                                                           *)
hub_wait_time(rc) == 2 ^ rc

(* send_telemetry_to_iot_hub lines 341-379: one turn of the attempt loop.  *)
(* The client is connected if it is not, the message is sent and the       *)
(* client's state is looked at: connected means the send is taken as       *)
(* confirmed and the buffer is deleted (archiving is off); not connected   *)
(* is logged and nothing else.  ConnectionDroppedError from connect or     *)
(* send_message counts a retry and sleeps; any other error leaves the      *)
(* loop.                                                                   *)
HubAttempt ==
    /\ hub_pc = "loop"
    /\ hub_retry_count < max_retries
    /\ ~hub_success
    /\ ~shutdown
    /\ Len(hub_outcomes) < MaxAttempts
    /\ \/ /\ hub_outcomes' = Append(hub_outcomes, "sent")
          /\ hub_connected' = TRUE
          /\ hub_success' = TRUE
          /\ buf' = [buf EXCEPT ![send_buffer] = NoFile]
          /\ UNCHANGED <<hub_retry_count, hub_slept, hub_pc>>
       \/ /\ hub_outcomes' = Append(hub_outcomes, "disconnected")
          /\ hub_connected' = FALSE
          /\ UNCHANGED <<hub_retry_count, hub_success, hub_slept, hub_pc,
                         buf>>
       \/ /\ hub_outcomes' = Append(hub_outcomes, "dropped")
          /\ hub_connected' = FALSE
          /\ hub_retry_count' = hub_retry_count + 1
          /\ hub_slept' = Append(hub_slept, hub_wait_time(hub_retry_count + 1))
          /\ UNCHANGED <<hub_success, hub_pc, buf>>
       \/ /\ hub_outcomes' = Append(hub_outcomes, "error")
          /\ hub_connected' \in BOOLEAN
          /\ hub_pc' = "after"
          /\ UNCHANGED <<hub_retry_count, hub_success, hub_slept, buf>>
    /\ UNCHANGED <<ptr, archives, sharedVars, readerVars, uploaderVars,
                   histVars, trackVars, pollVars, captured_by, partsButHub>>

(* send_telemetry_to_iot_hub lines 341, 381-382: the loop condition is     *)
(* false.                                                                  *)
HubLoopExit ==
    /\ hub_pc = "loop"
    /\ hub_retry_count >= max_retries \/ hub_success \/ shutdown
    /\ hub_pc' = "after"
    /\ UNCHANGED <<diskVars, sharedVars, readerVars, uploaderVars, histVars,
                   trackVars, pollVars, captured_by, partsButHub,
                   hub_retry_count, hub_success, hub_connected,
                   hub_outcomes, hub_slept>>

(* send_telemetry_to_iot_hub lines 316-339: a generation with readings was *)
(* rotated out and read, its payload is built and the attempt loop is      *)
(* entered; the client is connected or not.                                *)
HubInit ==
    /\ ptr = "B"
    /\ buf = [b \in {"A", "B"} |-> IF b = "A" THEN FileOf(<<1>>)
                                  ELSE initialized_buffer]
    /\ InitWorkers
    /\ archiveTelemetry = FALSE
    /\ InitPolling
    /\ InitRequest
    /\ InitResponse
    /\ waited = <<>>
    /\ InitTiming
    /\ hub_pc = "loop"
    /\ hub_retry_count = 0
    /\ hub_success = FALSE
    /\ hub_connected \in BOOLEAN
    /\ hub_outcomes = <<>>
    /\ hub_slept = <<>>
    /\ InitLocks

HubNext ==
    \/ HubAttempt
    \/ HubLoopExit
    \/ SetShutdown
HubSpec == HubInit /\ [][HubNext]_vars

(* ------------------------------------------- the readers' two locks *)
(* read_telemetry_from_port lines 114, 214-216: a value was obtained and   *)
(* generate_unique_reading_guid is called; line 30 waits for               *)
(* telemetry_guid_lock.                                                    *)
guid_call(r) ==
    /\ rpc[r] = "cycle"
    /\ ~shutdown
    /\ nextId <= MaxReadings
    /\ rdata' = [rdata EXCEPT ![r] = nextId]
    /\ nextId' = nextId + 1
    /\ rpc' = [rpc EXCEPT ![r] = "guid_wait"]
    /\ UNCHANGED <<diskVars, write_lock, shutdown, archiveTelemetry,
                   active_buffer, rloaded, uploaderVars, histVars, trackVars,
                   pollVars, captured_by, partVars>>

(* generate_unique_reading_guid line 30: the lock is taken.                *)
guid_lock_acquire(r) ==
    /\ rpc[r] = "guid_wait"
    /\ telemetry_guid_lock = "free"
    /\ telemetry_guid_lock' = r
    /\ rpc' = [rpc EXCEPT ![r] = "guid_draw"]
    /\ UNCHANGED <<diskVars, sharedVars, active_buffer, rdata, rloaded,
                   uploaderVars, histVars, trackVars, pollVars, captured_by,
                   partsButLocks, candidate, got>>

(* generate_unique_reading_guid lines 31-35: an identifier that is not     *)
(* retained is drawn.                                                      *)
guid_draw(r) ==
    /\ rpc[r] = "guid_draw"
    /\ \E guid \in accepted(telemetry_guids) :
          candidate' = [candidate EXCEPT ![r] = guid]
    /\ rpc' = [rpc EXCEPT ![r] = "guid_add"]
    /\ UNCHANGED <<diskVars, sharedVars, active_buffer, rdata, rloaded,
                   uploaderVars, histVars, trackVars, pollVars, captured_by,
                   partsButLocks, telemetry_guid_lock, got>>

(* generate_unique_reading_guid lines 38-45: the identifier is added and   *)
(* the set, once over its cap, is rebuilt from the tail of a list of it.   *)
guid_add(r) ==
    /\ rpc[r] = "guid_add"
    /\ \E guid_list \in list_of(telemetry_guids \cup {candidate[r]}) :
          LET kept == Range(trimmed(guid_list, MAX_GUID_CACHE_SIZE))
          IN  /\ telemetry_guids' = kept
              /\ reading_order' =
                     order_after(reading_order, candidate[r], kept)
    /\ rpc' = [rpc EXCEPT ![r] = "guid_persist"]
    /\ UNCHANGED <<diskVars, sharedVars, active_buffer, rdata, rloaded,
                   uploaderVars, histVars, reading_guid, reader_tracking,
                   uploader_tracking, guid_file, payload_order, last_op,
                   pollVars, captured_by, partVars>>

(* generate_unique_reading_guid lines 48-50: the retained identifiers are  *)
(* put in tracking_data and saved.                                         *)
guid_persist(r) ==
    /\ rpc[r] = "guid_persist"
    /\ \E reading_guids \in list_of(telemetry_guids) :
          LET data == save_tracked_guids(
                          [reader_tracking EXCEPT
                              !.reading_guids = reading_guids])
          IN  /\ reader_tracking' = data
              /\ guid_file' = data
    /\ rpc' = [rpc EXCEPT ![r] = "guid_return"]
    /\ UNCHANGED <<diskVars, sharedVars, active_buffer, rdata, rloaded,
                   uploaderVars, histVars, telemetry_guids, reading_guid,
                   uploader_tracking, reading_order, payload_order, last_op,
                   pollVars, captured_by, partVars>>

(* A return that leaves telemetry_guid_lock held.                          *)
guid_return_keeps_lock(r) ==
    /\ rpc[r] = "guid_return"
    /\ got' = [got EXCEPT ![r] = candidate[r]]
    /\ reading_guid' = candidate[r]
    /\ last_op' = "mint"
    /\ rpc' = [rpc EXCEPT ![r] = "minted"]
    /\ UNCHANGED <<diskVars, sharedVars, active_buffer, rdata, rloaded,
                   uploaderVars, histVars, telemetry_guids, reader_tracking,
                   uploader_tracking, guid_file, reading_order,
                   payload_order, pollVars, captured_by, partsButLocks,
                   telemetry_guid_lock, candidate>>

(* generate_unique_reading_guid line 52 and the end of the with block: the *)
(* identifier is returned and the lock released.                           *)
guid_return(r) ==
    /\ rpc[r] = "guid_return"
    /\ telemetry_guid_lock' = "free"
    /\ got' = [got EXCEPT ![r] = candidate[r]]
    /\ reading_guid' = candidate[r]
    /\ last_op' = "mint"
    /\ rpc' = [rpc EXCEPT ![r] = "minted"]
    /\ UNCHANGED <<diskVars, sharedVars, active_buffer, rdata, rloaded,
                   uploaderVars, histVars, telemetry_guids, reader_tracking,
                   uploader_tracking, guid_file, reading_order,
                   payload_order, pollVars, captured_by, partsButLocks,
                   candidate>>

(* read_telemetry_from_port lines 218-232 and write_telemetry_to_disk      *)
(* lines 56-57: the reading is built with its readingGUID, the active      *)
(* generation is looked up and the write lock is waited for.               *)
write_call(r) ==
    /\ rpc[r] = "minted"
    /\ active_buffer' = [active_buffer EXCEPT ![r] = get_active_buffer(ptr)]
    /\ rpc' = [rpc EXCEPT ![r] = "write_wait"]
    /\ UNCHANGED <<diskVars, sharedVars, rdata, rloaded, uploaderVars,
                   histVars, trackVars, pollVars, captured_by, partVars>>

(* write_telemetry_to_disk line 57: the write lock is taken.               *)
write_lock_acquire(r) ==
    /\ rpc[r] = "write_wait"
    /\ write_lock = "free"
    /\ write_lock' = r
    /\ rpc' = [rpc EXCEPT ![r] = "write_locked"]
    /\ UNCHANGED <<diskVars, shutdown, archiveTelemetry, nextId,
                   active_buffer, rdata, rloaded, uploaderVars, histVars,
                   trackVars, pollVars, captured_by, partVars>>

(* write_telemetry_to_disk lines 58-77, under the write lock: the          *)
(* generation is loaded, the reading appended and the file written back.   *)
(* The reading carries its readingGUID, so lines 67-68 mint nothing.       *)
write_append(r) ==
    /\ rpc[r] = "write_locked"
    /\ rloaded' = [rloaded EXCEPT
                      ![r] = load_for_append(buf[active_buffer[r]])]
    /\ buf' = [buf EXCEPT ![active_buffer[r]] =
                  appended_file(load_for_append(buf[active_buffer[r]]),
                                rdata[r])]
    /\ appended' = appended \cup {rdata[r]}
    /\ rpc' = [rpc EXCEPT ![r] = "written"]
    /\ UNCHANGED <<ptr, archives, sharedVars, active_buffer, rdata,
                   uploaderVars, delivered, retained, rotations, unlinked,
                   frozen, sendHist, result, cyc, trackVars, pollVars,
                   captured_by, partVars>>

(* write_telemetry_to_disk, end of the with block: the write lock is       *)
(* released and the cycle is over.                                         *)
write_lock_release(r) ==
    /\ rpc[r] = "written"
    /\ write_lock' = "free"
    /\ rpc' = [rpc EXCEPT ![r] = "cycle"]
    /\ UNCHANGED <<diskVars, shutdown, archiveTelemetry, nextId,
                   active_buffer, rdata, rloaded, uploaderVars, histVars,
                   trackVars, pollVars, captured_by, partVars>>

(* telemetry_reader.py lines 18-19: the reader module has loaded the       *)
(* tracking file, which is empty or holds an identifier of an earlier run; *)
(* the pointer file names generation A.                                    *)
LoadedGuids == {<<>>, <<MAX_GUID_CACHE_SIZE + 1>>}
LockInit ==
    /\ ptr = "A"
    /\ buf = [b \in {"A", "B"} |-> NoFile]
    /\ archives = <<>>
    /\ write_lock = "free"
    /\ shutdown = FALSE
    /\ archiveTelemetry = FALSE
    /\ nextId = 1
    /\ rpc = [r \in Readers |-> "cycle"]
    /\ active_buffer = [r \in Readers |-> "A"]
    /\ rdata = [r \in Readers |-> 0]
    /\ rloaded = [r \in Readers |-> <<>>]
    /\ upc = "wait"
    /\ send_buffer = "A"
    /\ telemetry_data = <<>>
    /\ payload_guid = NoGuid
    /\ retry_count = 0
    /\ client = NoClient
    /\ sent_payload_guids = {}
    /\ appended = {}
    /\ delivered = {}
    /\ retained = {}
    /\ rotations = 0
    /\ unlinked = FALSE
    /\ frozen = NotFrozen
    /\ attempts = 0
    /\ failures = 0
    /\ mints = 0
    /\ carried = <<>>
    /\ clients_made = 0
    /\ result = "none"
    /\ cyc = NoCyc
    /\ \E loaded \in LoadedGuids :
          /\ guid_file = [payload_guids |-> <<>>, reading_guids |-> loaded]
          /\ reader_tracking = guid_file
          /\ uploader_tracking = guid_file
          /\ telemetry_guids = Range(loaded)
          /\ reading_order = loaded
    /\ reading_guid = 0
    /\ payload_order = <<>>
    /\ last_op = "none"
    /\ captured_by = [i \in ReadingIds |-> "nobody"]
    /\ InitPolling
    /\ InitParts

LockNext ==
    \/ \E r \in Readers : guid_call(r)
    \/ \E r \in Readers : guid_lock_acquire(r)
    \/ \E r \in Readers : guid_draw(r)
    \/ \E r \in Readers : guid_add(r)
    \/ \E r \in Readers : guid_persist(r)
    \/ \E r \in Readers : guid_return(r)
    \/ \E r \in Readers : write_call(r)
    \/ \E r \in Readers : write_lock_acquire(r)
    \/ \E r \in Readers : write_append(r)
    \/ \E r \in Readers : write_lock_release(r)
    \/ SetShutdown
LockSpec == LockInit /\ [][LockNext]_vars

(* The steps of one reader in LockNext.                                    *)
LockReaderNext(r) ==
    \/ guid_call(r)
    \/ guid_lock_acquire(r)
    \/ guid_draw(r)
    \/ guid_add(r)
    \/ guid_persist(r)
    \/ guid_return(r)
    \/ write_call(r)
    \/ write_lock_acquire(r)
    \/ write_append(r)
    \/ write_lock_release(r)

(* Each reader thread keeps running: a reader that can make a step makes   *)
(* one.                                                                    *)
LockFairSpec == LockSpec /\ \A r \in Readers : WF_vars(LockReaderNext(r))

(* ================================================================ claims *)

(* C1: no-loss rotation.  After exactly one rotation (pointer flip and     *)
(* clearing of the newly active file) interleaved with the readers'        *)
(* appends, and before any generation file has been deleted or archived,   *)
(* the frozen generation and the newly active generation together hold     *)
(* exactly the readings whose append completed, each exactly once (looked  *)
(* at when no append is in the middle of writing its file).                *)
NoWriteInProgress == \A r \in Readers : rpc[r] # "writing"
C1_NoLossRotation ==
    (rotations = 1 /\ ~unlinked /\ NoWriteInProgress) =>
        LET both == buf["A"].data \o buf["B"].data
        IN  /\ NoDup(both)
            /\ Range(both) = appended

(* C2: a reading is destroyed only after confirmed delivery: every         *)
(* appended reading is still in generation file A or B, or was in a        *)
(* payload whose send succeeded.                                           *)
C2_DestroyedOnlyAfterDelivery ==
    NoWriteInProgress => appended \subseteq (OnDisk \cup delivered)

(* C3: at-least-once delivery of a retained generation.  Every reading of  *)
(* a generation retained by a failed cycle is eventually contained in a    *)
(* successfully delivered payload, as long as the uploader keeps running   *)
(* (no shutdown).                                                          *)
C3_RetainedIsRetried ==
    \A r \in ReadingIds :
        [](r \in retained => <>(r \in delivered \/ shutdown))

(* C4: retain-on-failure.  When a cycle ends after three failed delivery   *)
(* attempts, the frozen generation file exists with exactly the contents   *)
(* it had when it was rotated out.                                         *)
C4_RetainedUnchanged ==
    [][(upc = "loop" /\ upc' = "wait" /\ failures = 3 /\ frozen.set) =>
          buf'[send_buffer] = FileOf(frozen.data)]_vars

(* C5: the payloadId is stable across retries.  Within one call of         *)
(* send_message_with_retry the payloadGUID is minted exactly once and      *)
(* every message handed to the sink carries it.                            *)
C5_PayloadIdStable ==
    /\ mints <= 1
    /\ upc \in {"loop", "except", "sent"} => mints = 1
    /\ \A i \in 1..Len(carried) : carried[i] = carried[1]
    /\ upc \in {"loop", "except", "sent"} =>
          \A i \in 1..Len(carried) : carried[i] = payload_guid

(* C5 witness: three attempts have each handed a message to the sink.      *)
C5_Witness ==
    /\ Len(carried) = 3
    /\ failures = 3

(* C6: the delivery loop is bounded.  At most 3 delivery attempts per      *)
(* call; True is returned at the first successful attempt (every earlier   *)
(* attempt failed), False once 3 attempts have failed (or the cancellation *)
(* signal stopped the loop).                                               *)
C6_BoundedDelivery ==
    /\ attempts <= 3
    /\ failures <= 3
    /\ result \in {"sent", "deleted", "archived", "archive_error"} =>
          attempts = failures + 1
    /\ upc = "sent" => attempts = failures + 1
    /\ (result = "send_failed" /\ ~shutdown) => failures = 3
    /\ (upc = "loop" /\ failures = 3) => retry_count >= 3

(* C6 witness: three attempts failed and the call returned False.          *)
C6_Witness ==
    /\ result = "send_failed"
    /\ failures = 3
    /\ attempts = 3
    /\ ~shutdown

(* C7: a failed connectivity probe aborts the cycle without consuming a    *)
(* retry: no client created, no attempt made or counted, no payloadGUID    *)
(* minted, and the generation file still on disk.                          *)
C7_ProbeFailureAborts ==
    (upc = "wait" /\ result = "probe_failed") =>
        /\ attempts = 0
        /\ retry_count = 0
        /\ clients_made = 0
        /\ ~client.created
        /\ mints = 0
        /\ payload_guid = NoGuid
        /\ carried = <<>>
        /\ buf[send_buffer].exists

(* C7 witness: a cycle with a non-empty rotated-out generation ended on a  *)
(* failed probe.                                                           *)
C7_Witness ==
    /\ upc = "wait"
    /\ result = "probe_failed"
    /\ frozen.set
    /\ telemetry_data # <<>>

(* C8: no connection leaks.  Every attempt works on a client of its own,   *)
(* and outside an attempt every client that was created is disconnected    *)
(* and shut down.                                                          *)
C8_NoConnectionLeak ==
    /\ clients_made <= attempts
    /\ upc \in {"sent", "except"} => (client.created => ~client.shut)
    /\ upc \notin {"sent", "except"} =>
          (client.created => (~client.connected /\ client.shut))

(* C8 witness: an attempt failed before its client was connected and is    *)
(* over; the client is released.                                           *)
C8_Witness ==
    /\ upc = "loop"
    /\ failures = 1
    /\ client.created
    /\ client.shut
    /\ carried = <<>>

(* C9 as claimed: whenever delivery succeeded and the uploader has handled *)
(* the buffer, with archiving on the generation file is gone and exactly   *)
(* one new complete archive, a copy of the generation file, exists; with   *)
(* archiving off the file is gone and no archive was created.              *)
DisposedAsClaimed ==
    /\ ~buf'[send_buffer].exists
    /\ IF archiveTelemetry
       THEN /\ Len(archives') = cyc.narch + 1
            /\ archives'[Len(archives')].complete
       ELSE archives' = archives /\ Len(archives) = cyc.narch
ArchiveCopiesSource ==
    (upc = "dispose" /\ upc' = "archived") =>
        archives' = Append(archives,
            [data |-> buf[send_buffer].data, complete |-> TRUE])
C9_SuccessDisposes ==
    [][/\ ArchiveCopiesSource
       /\ (upc \in {"dispose", "archived"} /\ upc' = "wait") =>
              DisposedAsClaimed]_vars

(* C9 amended: the same, for a cycle in which archive_telemetry_data (when *)
(* archiving is on) completed without raising.                             *)
C9_SuccessDisposesUnlessArchiveFails ==
    [][/\ ArchiveCopiesSource
       /\ (upc \in {"dispose", "archived"} /\ upc' = "wait"
           /\ result' # "archive_error") => DisposedAsClaimed]_vars

(* C9 witness: a delivered generation was archived and its file removed.   *)
C9_Witness ==
    /\ upc = "wait"
    /\ result = "archived"
    /\ ~buf[send_buffer].exists
    /\ Len(archives) = 1
    /\ archives[1].complete
    /\ archives[1].data = telemetry_data

(* C10: when archive_telemetry_data fails the error reaches the uploader   *)
(* (the cycle ends there) with the source generation file still on disk,   *)
(* untouched; with archiving on the source is removed only once a complete *)
(* archive of it exists.                                                   *)
C10_ArchiveFailureKeepsSource ==
    [][/\ (upc = "dispose" /\ result' = "archive_error") =>
            (upc' = "wait" /\ buf[send_buffer].exists /\ buf' = buf)
       /\ (archiveTelemetry /\ upc \in {"dispose", "archived"}
           /\ buf[send_buffer].exists /\ ~buf'[send_buffer].exists) =>
            (/\ Len(archives) = cyc.narch + 1
             /\ archives[Len(archives)].complete)]_vars

(* C10 witness: compression failed midway; a partial archive exists and    *)
(* the source generation is still on disk.                                 *)
C10_Witness ==
    /\ upc = "wait"
    /\ result = "archive_error"
    /\ buf[send_buffer].exists
    /\ buf[send_buffer].data # <<>>
    /\ Len(archives) = 1
    /\ ~archives[1].complete

(* C11: the pointer names exactly one generation at every moment.  Until   *)
(* the first rotation every lookup of the active generation, by a reader   *)
(* or by the uploader, gives A (the pointer is created as A); and once the *)
(* uploader has rotated, the generation in flight is not the one the       *)
(* pointer names as active.                                                *)
LookedUp == {r \in Readers : rpc[r] \in {"got_active", "loaded", "writing"}}
C11_PointerNamesOneGeneration ==
    /\ rotations = 0 =>
          /\ \A r \in LookedUp : active_buffer[r] = "A"
          /\ upc = "locked" => send_buffer = "A"
    /\ (frozen.set /\ upc # "wait") => send_buffer # get_active_buffer(ptr)

(* C12: a rotation (the uploader's step that flips the pointer) moves the  *)
(* pointer to the other generation, leaves the newly active generation an *)
(* empty list with no reader inside an append, and the send candidate is   *)
(* the generation that was active immediately before the flip, its file    *)
(* untouched by the rotation.                                              *)
RotationStep == ~frozen.set /\ frozen'.set
C12_RotationFlipsAndClears ==
    [][RotationStep =>
          /\ get_active_buffer(ptr') = switch_buffer(get_active_buffer(ptr))
          /\ buf'[get_active_buffer(ptr')] = FileOf(<<>>)
          /\ \A r \in Readers : rpc[r] \notin {"loaded", "writing"}
          /\ send_buffer = get_active_buffer(ptr)
          /\ buf'[send_buffer] = buf[send_buffer]]_vars

(* C13: a generation is frozen once rotated out.  While the generation     *)
(* rotated out by the uploader is in flight (not yet deleted, archived or  *)
(* given up), no step of a reader changes its file.                        *)
C13_FrozenNotAppended ==
    [][(frozen.set /\ upc # "wait" /\ rpc' # rpc) =>
          buf'[send_buffer] = buf[send_buffer]]_vars

(* C14: the write lock serializes the appends and the rotation.  A reader  *)
(* is inside its read-modify-write from the load of the generation file to *)
(* the end of the write back; the uploader is inside the rotation from the *)
(* lookup of the pointer to the clearing of the new generation.  At most   *)
(* one of these is in progress, and the one in progress holds the lock.    *)
InAppend == {r \in Readers : rpc[r] \in {"loaded", "writing"}}
InRotation == upc \in {"no_pointer", "creating", "locked"}
C15_AppendAllOrNothing ==
    \A r \in InAppend :
        LET file == buf[active_buffer[r]]
        IN  file.exists =>
               /\ file.ok
               /\ file.data \in {rloaded[r], Append(rloaded[r], rdata[r])}

(* C16: a missing or unparseable active generation file is treated as     *)
(* empty and is never fatal.  An append that finds its generation file     *)
(* absent or not loadable goes on with the empty list and, when it has     *)
(* written the file back, the file holds exactly the new reading and the   *)
(* reader is at its next cycle.                                            *)
C16_MissingOrCorruptIsEmpty ==
    [][\A r \in Readers :
          LET file == buf[active_buffer[r]]
          IN  /\ (rpc[r] = "got_active" /\ rpc'[r] # "got_active"
                  /\ (~file.exists \/ ~file.ok)) =>
                     (rpc'[r] = "loaded" /\ rloaded'[r] = <<>>)
              /\ (rpc[r] = "writing" /\ rpc'[r] # "writing"
                  /\ rloaded[r] = <<>>) =>
                     (/\ rpc'[r] = "cycle"
                      /\ buf'[active_buffer[r]] = FileOf(<<rdata[r]>>))]_vars

(* C17: lookup before mint.  The identifier generate_unique_reading_guid   *)
(* returns is not in the retained reading-identifier set as it was when    *)
(* the function was called.                                                *)
C17_LookupBeforeMint ==
    [][last_op' = "mint" => reading_guid' \notin telemetry_guids]_vars

(* C17 witness: a mint was made while the retained set was at its cap: the *)
(* set is still full and the eviction that followed took the identifier    *)
(* just returned.                                                          *)
C17_Witness ==
    /\ last_op = "mint"
    /\ telemetry_guids # {}
    /\ reading_guid \notin telemetry_guids
    /\ guid_file.reading_guids # <<>>

(* C18: the tracker survives restarts.  After any interleaving of mints    *)
(* and recorded sends the tracking file holds every reading identifier the *)
(* reader retains and every payload identifier the uploader retains.       *)
C18_TrackerSurvivesRestart ==
    /\ telemetry_guids \subseteq Range(guid_file.reading_guids)
    /\ sent_payload_guids \subseteq Range(guid_file.payload_guids)

(* C19: eviction is oldest-first.  When a mint or a recorded send evicts,  *)
(* every identifier evicted was inserted before every identifier that      *)
(* remains, and the identifier just minted is among those that remain.     *)
Pos(order, x) == CHOOSE i \in 1..Len(order) : order[i] = x
OldestFirst(before, after, order) ==
    \A x \in before \ after : \A y \in before \cap after :
        Pos(order, x) < Pos(order, y)
C19_EvictionOldestFirst ==
    [][/\ last_op' = "mint" =>
             /\ OldestFirst(telemetry_guids, telemetry_guids', reading_order)
             /\ reading_guid' \in telemetry_guids'
       /\ last_op' = "send" =>
             OldestFirst(sent_payload_guids, sent_payload_guids',
                         payload_order)]_vars

(* C20: the size caps bound the collections.  After every mint, recorded   *)
(* send, persist and reload, the reading-identifier collection holds at    *)
(* most MAX_GUID_CACHE_SIZE entries and the payload-identifier collection  *)
(* at most MAX_TRACKING_SIZE, in the modules' memory and in the tracking   *)
(* file.                                                                   *)
WithinCaps(guid_data) ==
    /\ Len(guid_data.reading_guids) <= MAX_GUID_CACHE_SIZE
    /\ Len(guid_data.payload_guids) <= MAX_TRACKING_SIZE
C20_SizeCaps ==
    /\ Cardinality(telemetry_guids) <= MAX_GUID_CACHE_SIZE
    /\ Cardinality(sent_payload_guids) <= MAX_TRACKING_SIZE
    /\ WithinCaps(reader_tracking)
    /\ WithinCaps(uploader_tracking)
    /\ WithinCaps(guid_file)

(* C20 witness: both collections are at their caps after a mint that went  *)
(* over the cap (the identifier it returned is among the evicted) and was  *)
(* persisted.                                                              *)
C20_Witness ==
    /\ last_op = "mint"
    /\ Cardinality(telemetry_guids) = MAX_GUID_CACHE_SIZE
    /\ Cardinality(sent_payload_guids) = MAX_TRACKING_SIZE
    /\ reading_guid \notin telemetry_guids
    /\ Len(guid_file.reading_guids) = MAX_GUID_CACHE_SIZE

(* C21: cooperative shutdown.  Once the cancellation signal is set every   *)
(* reader loop and the uploader loop eventually exits (every worker keeps  *)
(* running, no call hangs), and a worker that finds the signal set at its  *)
(* loop check leaves the loop instead of starting a new cycle.             *)
AllLoopsExited == (\A r \in Readers : lpc[r] = "done") /\ upc = "done"
ExitsAtLoopCheck ==
    /\ \A r \in Readers :
         (shutdown /\ lpc[r] = "check" /\ lpc'[r] # "check")
             => lpc'[r] = "done"
    /\ (shutdown /\ upc = "wait" /\ upc' # "wait") => upc' = "done"
C21_CooperativeShutdown ==
    /\ shutdown ~> AllLoopsExited
    /\ [][ExitsAtLoopCheck]_vars
C21_Witness ==
    /\ AllLoopsExited
    /\ \E r \in Readers : stored[r]
    /\ result = "send_failed"

(* C22: bounded grace.  On a shutdown request the coordinator has set the  *)
(* signal when it starts waiting, and it always gets from the joins to its *)
(* exit, whether or not the workers ever make another step: the wait for   *)
(* each worker ends with what is left of shutdown_timeout.                 *)
C22_BoundedGrace ==
    /\ [](mpc \in {"join", "exited"} => shutdown)
    /\ (mpc = "join") ~> (mpc = "exited")
C22_Witness ==
    /\ mpc = "exited"
    /\ grace_left = 0
    /\ \E r \in Readers : started[r] /\ lpc[r] \notin {"done", "crashed"}

(* C23: a cycle in which the port is not available opens no port, stores   *)
(* no reading and leaves the reader in its loop (it sleeps and goes back   *)
(* to the loop check, where only the signal ends it); and whenever the     *)
(* availability check of a cycle succeeds the reader goes on to open the   *)
(* port, however many cycles were skipped before.                          *)
SkipsUnavailable ==
    \A r \in Readers :
        port_available[r] = "no" =>
            /\ ~ser[r]
            /\ ~stored[r]
            /\ lpc[r] \in {"sleep", "check", "done"}
            /\ lpc[r] = "done" => shutdown
PollsWhenAvailable ==
    \A r \in Readers :
        (port_available[r] # "yes" /\ port_available'[r] = "yes")
            => lpc'[r] = "open"
C23_UnavailablePortSkipsCycle ==
    /\ []SkipsUnavailable
    /\ [][PollsWhenAvailable]_vars
C23_Witness ==
    \E r \in Readers :
        /\ unavailable_cycles[r] = 3
        /\ port_available[r] = "yes"
        /\ stored[r]
        /\ lpc[r] = "wait"

(* C24: an error raised in a reader stays in that reader: no reader thread *)
(* dies of an exception, a reader leaves its loop only when the signal is  *)
(* set, and the signal is set only by a shutdown request, never because    *)
(* the coordinator found a thread dead.                                    *)
C24_ErrorsStayInWorker ==
    /\ \A r \in Readers :
          /\ lpc[r] # "crashed"
          /\ lpc[r] = "done" => shutdown
    /\ shutdown => interrupted
C24_Witness ==
    \E r, q \in Readers :
        /\ r # q
        /\ raised[r]
        /\ lpc[r] = "wait"
        /\ lpc[q] = "exchange"
        /\ mpc = "monitor"
        /\ ~shutdown

(* C25: a live poll stores a reading only for a well-formed response: one  *)
(* of 5 + 2 * num_registers bytes whose address and function code are the  *)
(* request's (which excludes a function code with the high bit set).       *)
well_formed(resp) ==
    /\ Len(resp) = 5 + 2 * num_registers
    /\ resp[1] = device_address
    /\ resp[2] = function_code
C25_OnlyWellFormedStored ==
    \A r \in Readers :
        (stored[r] /\ ~should_simulate[r]) => well_formed(response[r])

(* C26: a port configured inactive gets no thread and never enters the     *)
(* loop: it never polls, never opens its port, never stores a reading.     *)
C26_InactiveNeverRuns ==
    \A r \in Readers :
        ~is_active[r] =>
            /\ ~started[r]
            /\ lpc[r] = "idle"
            /\ ~ser[r]
            /\ ~stored[r]
            /\ value[r] = None
C26_Witness ==
    \E r, q \in Readers :
        /\ ~is_active[r]
        /\ is_active[q]
        /\ stored[q]
        /\ mpc = "monitor"

(* C27: within one sensor's stream readings are appended in capture order: *)
(* in each generation file, of two readings captured by the same reader    *)
(* the one captured earlier (the smaller identifier) comes first.          *)
C27_StreamInCaptureOrder ==
    \A b \in {"A", "B"} :
        LET d == buf[b].data
        IN  \A i, j \in 1..Len(d) :
                (i < j /\ captured_by[d[i]] = captured_by[d[j]])
                    => d[i] < d[j]
C27_Witness ==
    \E b \in {"A", "B"} :
        LET d == buf[b].data
        IN  /\ Len(d) = 2
            /\ captured_by[d[1]] = captured_by[d[2]]
            /\ rotations > 0

(* C28: every wait of a worker is interruptible: with the signal set, a    *)
(* step of a reader that is in its inter-cycle wait or in the sleep after  *)
(* a port-unavailable cycle ends that wait.                                *)
Waiting(r) == lpc[r] \in {"wait", "sleep"}
WaitEndsOnSignal ==
    \A r \in Readers :
        ( /\ shutdown
          /\ Waiting(r)
          /\ <<lpc[r], sleep_left[r]>>' # <<lpc[r], sleep_left[r]>> )
            => lpc'[r] \notin {"wait", "sleep"}
C28_WaitsInterruptible == [][WaitEndsOnSignal]_vars

(* C29: the uploader rotates only a generation that has content, and a     *)
(* cycle with nothing to send is skipped: it has made no rotation, minted  *)
(* no payloadGUID and made no delivery attempt.                            *)
C29_SkipWhenNothingToSend ==
    /\ frozen.set => frozen.data # <<>>
    /\ result \in {"no_file", "empty"} =>
          (~frozen.set /\ mints = 0 /\ attempts = 0)

(* C30: a reader has its serial port open only inside the exchange of a    *)
(* poll; whenever it is at the value check, waiting, sleeping or at its    *)
(* loop check the port is closed.                                          *)
C30_PortClosedOutsidePoll ==
    \A r \in Readers : ser[r] => lpc[r] \in {"exchange", "finally"}
C30_Witness ==
    \E r, q \in Readers :
        /\ lpc[r] = "wait"
        /\ port_available[r] = "yes"
        /\ response[r] = <<>>
        /\ raised[r]
        /\ ~ser[r]
        /\ ser[q]

(* C31: calculate_crc is the Modbus CRC16.  The CRC appended to the        *)
(* request 01 03 00 00 00 01 is 84 0A, and the CRC appended to a request   *)
(* that differs from it in one byte is different from 84 0A.               *)
C31_ModbusCrc16 ==
    full_command # <<>> =>
        LET sent_crc == SubSeq(full_command, Len(command_bytes) + 1,
                               Len(full_command))
        IN  /\ Len(sent_crc) = 2
            /\ SubSeq(full_command, 1, Len(command_bytes)) = command_bytes
            /\ (command_bytes = reference_command)
                   <=> (sent_crc = reference_crc)

(* A request with one byte changed has been given its CRC.                 *)
C31_Witness ==
    /\ command_bytes = <<1, 3, 0, 0, 0, 2>>
    /\ Len(full_command) = 8

(* C32: value decoding.  The value of a response, in units of the scale    *)
(* 0.1, is the big-endian unsigned integer of the 2 * num_registers data   *)
(* bytes after the 3-byte header; 01 03 02 01 90 <crc> decodes to raw 400, *)
(* that is 40.0.                                                           *)
C32_ValueDecoding ==
    decoded_value # None =>
        /\ decoded_value = 256 * raw_response[4] + raw_response[5]
        /\ SubSeq(raw_response, 1, 5) = <<1, 3, 2, 1, 144>>
               => decoded_value = 400

(* The response 01 03 02 01 90 b9 b8 has been decoded.                     *)
C32_Witness ==
    /\ raw_response = <<1, 3, 2, 1, 144, 185, 184>>
    /\ decoded_value = 400

(* C33: backoff schedule.  The k-th backoff wait of a cycle is 5 * k       *)
(* seconds, after the k-th failed attempt and before attempt k + 1; no     *)
(* wait is longer than the longest wait of the schedule,                   *)
(* 5 * (max_retries - 1), and the last failed attempt is followed by no    *)
(* wait.                                                                   *)
backoff_cap == backoff_base * (max_retries - 1)
C33_BackoffSchedule ==
    /\ \A k \in 1..Len(waited) :
          /\ waited[k] = backoff_base * k
          /\ waited[k] <= backoff_cap
    /\ Len(waited) <= max_retries - 1
    /\ upc = "loop" =>
          Len(waited) = IF failures < max_retries THEN failures
                        ELSE max_retries - 1
    /\ upc = "except" => Len(waited) = failures - 1

(* Three attempts have failed; two waits were slept.                       *)
C33_Witness ==
    /\ upc = "loop"
    /\ failures = max_retries
    /\ waited = <<5, 10>>

C35_AtMostThreeAttempts ==
    /\ Len(hub_outcomes) <= max_retries
    /\ (Len(hub_outcomes) = max_retries /\ hub_pc = "loop")
           => (hub_retry_count >= max_retries \/ hub_success)

(* C36: reading-identifier mints are serialized.  Only the holder of the   *)
(* identifier lock is inside generate_unique_reading_guid, and once two    *)
(* readers have each minted an identifier the two identifiers differ and   *)
(* both are in the retained set and, when no mint is in progress, in the   *)
(* persisted list.                                                         *)
InsideMint(r) ==
    rpc[r] \in {"guid_draw", "guid_add", "guid_persist", "guid_return"}
MintsSerialized == \A r \in Readers : InsideMint(r) <=> telemetry_guid_lock = r
C36_MintsSerialized ==
    /\ MintsSerialized
    /\ (\A r \in Readers : got[r] # NoGuid) =>
          /\ \A r1, r2 \in Readers : r1 # r2 => got[r1] # got[r2]
          /\ \A r \in Readers : got[r] \in telemetry_guids
          /\ telemetry_guid_lock = "free" =>
                \A r \in Readers : got[r] \in Range(guid_file.reading_guids)

(* C38: immediately after generate_unique_reading_guid has returned an     *)
(* identifier, that identifier is in the retained set and in the persisted *)
(* list, also when the mint pushed the set past its cap.                   *)
C38_MintedIdRetained ==
    last_op = "mint" =>
        /\ reading_guid \in telemetry_guids
        /\ reading_guid \in Range(guid_file.reading_guids)

(* C40: reader workers never deadlock on the write lock and the            *)
(* reading-identifier lock.  A reader holds a lock only inside the         *)
(* section the lock protects, so it never waits for one lock while holding *)
(* the other, and every reader that waits for a lock gets it.              *)
InsideWrite(r) == rpc[r] \in {"write_locked", "written"}
LockOrder ==
    \A r \in Readers :
        /\ telemetry_guid_lock = r <=> InsideMint(r)
        /\ write_lock = r <=> InsideWrite(r)
C40_NoLockDeadlock ==
    /\ []LockOrder
    /\ \A r \in Readers :
          /\ (rpc[r] = "guid_wait") ~> (rpc[r] = "guid_draw")
          /\ (rpc[r] = "write_wait") ~> (rpc[r] = "write_locked")

(* One reader waits for the write lock that the other reader holds while a *)
(* mint has been completed by both.                                        *)
C40_Witness ==
    /\ rpc["port1"] = "write_wait"
    /\ write_lock = "port2"
    /\ telemetry_guid_lock = "free"

(* ------------------------------------------------------------------- C37 *)
(* The sent-payload set or its persisted copy changes only in the step in  *)
(* which a send succeeded: a cycle that gives up, or whose connectivity    *)
(* probe failed, leaves both as they were.                                 *)
FailedCycleLeavesTracking ==
    [][(\/ sent_payload_guids' # sent_payload_guids
        \/ guid_file'.payload_guids # guid_file.payload_guids)
       => (upc = "sent" /\ upc' = "dispose")]_vars

(* After a successful send the payloadGUID of the payload is in the        *)
(* sent-payload set and in the tracking file.                              *)
SentIdTracked ==
    (upc = "dispose" /\ result = "sent")
        => /\ payload_guid \in sent_payload_guids
           /\ payload_guid \in Range(guid_file.payload_guids)

(* C37: a payloadGUID is added to the sent-payload set and persisted       *)
(* exactly when its send succeeds; a cycle whose attempts all fail, or     *)
(* whose connectivity probe fails, leaves the set and its persisted copy   *)
(* unchanged.                                                              *)
C37_TrackedExactlyOnSuccess ==
    []SentIdTracked /\ FailedCycleLeavesTracking

(* ------------------------------------------------------------------- C39 *)
(* send_message_with_retry has been called for the generation and has not  *)
(* returned.                                                               *)
BeingSent == upc \in {"loop", "except", "sent"}

(* C39 as stated: with the cancellation signal set while a generation is   *)
(* being sent, no attempt is made, the only result reported is a failure   *)
(* and the uploader's steps leave the files and the archives as they are.  *)
C39_ShutdownDuringSendFails ==
    [][(shutdown /\ BeingSent)
       => /\ attempts' = attempts
          /\ result' \in {result, "send_failed"}
          /\ (upc' # upc) => (buf' = buf /\ archives' = archives)]_vars

(* C39, amended: once the cancellation signal is set no attempt is         *)
(* started; an attempt that had already delivered the message still        *)
(* returns success, and otherwise send_message_with_retry reports failure, *)
(* the uploader neither deletes nor archives the generation, leaves its    *)
(* file as it is and only leaves its loop.                                 *)
C39_ShutdownStopsAttempts ==
    [][shutdown
       => /\ attempts' = attempts
          /\ (upc \in {"loop", "except", "wait"} /\ upc' # upc)
                => /\ result' \in {result, "send_failed"}
                   /\ buf' = buf
                   /\ archives' = archives
                   /\ ptr' = ptr
          /\ (upc = "loop" /\ upc' # upc)
                => (upc' = "wait" /\ result' = "send_failed")]_vars

(* The signal was set after a failed attempt and before the retry cap was  *)
(* reached; the uploader gave up and the file of the generation is still   *)
(* there.                                                                  *)
C39_Witness ==
    /\ shutdown
    /\ upc \in {"wait", "done"}
    /\ result = "send_failed"
    /\ attempts >= 1
    /\ retry_count < max_retries
    /\ buf[send_buffer].exists

====
